---- MODULE Spec2Model ----
(***************************************************************************)
(* eink-simulator: bitmap font decoding, text layout and packed image      *)
(* decoding (fonts.js and primitives.ts).  The canvas is an external       *)
(* collaborator that the library never reads back, so the effect of an     *)
(* operation on it is the sequence of ctx.fillRect(x, y, 1, 1) calls the   *)
(* operation issues, each with the fillStyle set just before it.           *)
(***************************************************************************)
EXTENDS Integers, Sequences, FiniteSets, TLC

VARIABLES
  call,     \* the exported function applied last, with its arguments
  dc,       \* the pixel writes that call issued on the drawing context
  ret,      \* its numeric return value (0 when it returns nothing)
  bounds,   \* the TextBounds object returned by getTextBounds
  cursorX,  \* the local cursorX of drawText / drawBuiltinText at loop exit
  startX,   \* the x an aligned draw passed on to drawText / drawBuiltinText
  currentFont,  \* EinkSimulator.currentFont: a GFXFont or null
  textColor,    \* EinkSimulator.textColor
  config,       \* EinkSimulator.config, as the constructor completed it
  result        \* the object or boolean the call returned, if it returns one

vars ==
  <<call, dc, ret, bounds, cursorX, startX, currentFont, textColor, config,
    result>>

----------------------------------------------------------------------------
(* Bounds of the model and the input sets.                                 *)

MaxLen == 2

\* Code points the strings are built from: two codes inside the fonts'
\* range and one astral code point (U+1F600), iterated as one character.
Alphabet == {65, 66, 128512}

\* char.charCodeAt(0) of one character of a for..of iteration: the first
\* UTF-16 code unit, i.e. the high surrogate for an astral code point.
CharCodeAt0(cp) ==
  IF cp >= 65536 THEN 55296 + ((cp - 65536) \div 1024) ELSE cp

\* The UTF-16 code units of a string given by its code points, and the
\* code points a for..of loop yields from a string given by its code
\* units: a high surrogate followed by a low one is one character, any
\* other unit is a character of its own.
RECURSIVE Utf16Units(_)
Utf16Units(text) ==
  IF text = <<>> THEN <<>>
  ELSE (IF Head(text) >= 65536
        THEN <<55296 + ((Head(text) - 65536) \div 1024),
               56320 + ((Head(text) - 65536) % 1024)>>
        ELSE <<Head(text)>>) \o Utf16Units(Tail(text))

RECURSIVE CodePoints(_)
CodePoints(units) ==
  IF units = <<>> THEN <<>>
  ELSE IF /\ Len(units) >= 2
          /\ units[1] \in 55296 .. 56319
          /\ units[2] \in 56320 .. 57343
       THEN <<65536 + (units[1] - 55296) * 1024 + (units[2] - 56320)>>
              \o CodePoints(SubSeq(units, 3, Len(units)))
       ELSE <<units[1]>> \o CodePoints(Tail(units))

RECURSIVE StringsUpTo(_)
StringsUpTo(n) ==
  IF n = 0 THEN {<<>>}
  ELSE LET shorter == StringsUpTo(n - 1)
       IN  shorter \cup {Append(s, c) : s \in {t \in shorter : Len(t) = n - 1},
                                        c \in Alphabet}

Texts == StringsUpTo(MaxLen)

\* The character codes drawGlyph is called with.
CharCodes == {CharCodeAt0(c) : c \in Alphabet}

Xs == {0, 3}
Ys == {0, 10}
Colors == {"#000000", "#FF0000"}

\* The colours drawText is called with.
TextColors == {"#FF0000"}

----------------------------------------------------------------------------
(* JavaScript arithmetic used by the decoders.                             *)

\* a & b on non-negative 32-bit operands.
RECURSIVE BitAnd(_, _)
BitAnd(a, b) ==
  IF a = 0 \/ b = 0 THEN 0
  ELSE (a % 2) * (b % 2) + 2 * BitAnd(a \div 2, b \div 2)

\* 1 << n for 0 <= n <= 30.
ShiftLeft1(n) == 2 ^ n

\* Math.ceil(a / b) and Math.floor(a / b) for integers, b > 0.
CeilDiv(a, b) == (a + b - 1) \div b
FloorDiv(a, b) == a \div b

\* Variant: a read past the end of the array yields a byte with all bits
\* set.
ByteAt_PastEndAllSet(arr, i) == IF i + 1 \in DOMAIN arr THEN arr[i + 1] ELSE 255

\* arr[i] of a number[] used as the left operand of &: an index outside the
\* array reads undefined, and undefined & m is 0.
ByteAt(arr, i) == IF i + 1 \in DOMAIN arr THEN arr[i + 1] ELSE 0

----------------------------------------------------------------------------
(* Fonts (GFXFont, GFXGlyph).                                              *)

Glyph(o, w, h, xa, xo, yo) ==
  [offset |-> o, width |-> w, height |-> h,
   xAdvance |-> xa, xOffset |-> xo, yOffset |-> yo]

GlyphPool ==
  { Glyph(0, 0, 0, 3, 0, 0),     \* space: nothing to draw, advances
    Glyph(0, 8, 1, 9, 1, -1),    \* one row of one whole byte
    Glyph(0, 5, 3, 4, 0, -3),    \* 15 bits: rows cross the byte boundary
    Glyph(1, 3, 2, 0, -1, 1),    \* below the baseline, no advance
    Glyph(1, 2, 1, 2, 0, -4),    \* wholly above the baseline
    Glyph(2, 0, 2, -1, 0, 2),    \* zero width with a height
    Glyph(2, 2, 2, 3, 0, -2) }   \* data at the end of / past the bitmap

FontCodes == {65, 66}

FontBitmaps == { <<128, 165>>, <<91, 60, 255>> }

Fonts ==
  UNION { { [bitmap |-> b, glyphs |-> g, first |-> 65, last |-> 66,
             yAdvance |-> 8] : g \in [S -> GlyphPool], b \in FontBitmaps }
          : S \in SUBSET FontCodes }

\* font.glyphs[charCode] is an object (truthy) or undefined.
HasGlyph(font, charCode) == charCode \in DOMAIN font.glyphs

----------------------------------------------------------------------------
(* primitives: drawPixel.  The loops of the decoders are given as the      *)
(* writes they issue from an iteration on, in the order they issue them.   *)

drawPixel(d, x, y, color) == Append(d, [x |-> x, y |-> y, color |-> color])

----------------------------------------------------------------------------
(* fonts: drawGlyph.                                                       *)

\* drawGlyph's inner loop reading each byte from its low bit up.
RECURSIVE drawGlyphCols_LsbFirst(_, _, _, _, _, _, _, _)
drawGlyphCols_LsbFirst(x, y, glyph, font, color, row, col, bitIndex) ==
  IF col < glyph.width
  THEN LET byteIndex == glyph.offset + FloorDiv(bitIndex, 8)
           bit == bitIndex % 8
           here == IF BitAnd(ByteAt(font.bitmap, byteIndex),
                             ShiftLeft1(bit)) # 0
                   THEN drawPixel(<<>>, x + glyph.xOffset + col,
                                  y + glyph.yOffset + row, color)
                   ELSE <<>>
           rest == drawGlyphCols_LsbFirst(x, y, glyph, font, color, row, col + 1,
                     bitIndex + 1)
       IN  [writes |-> here \o rest.writes, bitIndex |-> rest.bitIndex]
  ELSE [writes |-> <<>>, bitIndex |-> bitIndex]

\* The inner loop of drawGlyph from column col of one row on: the pixel
\* writes it issues, in order, and bitIndex at its exit (bitIndex runs on
\* across rows).
RECURSIVE drawGlyphCols(_, _, _, _, _, _, _, _)
drawGlyphCols(x, y, glyph, font, color, row, col, bitIndex) ==
  IF col < glyph.width
  THEN LET byteIndex == glyph.offset + FloorDiv(bitIndex, 8)
           bit == 7 - (bitIndex % 8)
           here == IF BitAnd(ByteAt(font.bitmap, byteIndex),
                             ShiftLeft1(bit)) # 0
                   THEN drawPixel(<<>>, x + glyph.xOffset + col,
                                  y + glyph.yOffset + row, color)
                   ELSE <<>>
           rest == drawGlyphCols(x, y, glyph, font, color, row, col + 1,
                     bitIndex + 1)
       IN  [writes |-> here \o rest.writes, bitIndex |-> rest.bitIndex]
  ELSE [writes |-> <<>>, bitIndex |-> bitIndex]

\* Variant: every row of the glyph starts on a byte of its own, as the rows
\* of an XBitmap do.
RECURSIVE drawGlyphRows_RowsByteAligned(_, _, _, _, _, _, _)
drawGlyphRows_RowsByteAligned(x, y, glyph, font, color, row, bitIndex) ==
  IF row < glyph.height
  THEN LET r == drawGlyphCols(x, y, glyph, font, color, row, 0,
                              row * 8 * CeilDiv(glyph.width, 8))
       IN  r.writes
           \o drawGlyphRows_RowsByteAligned(x, y, glyph, font, color, row + 1,
                                            r.bitIndex)
  ELSE <<>>

\* The outer loop of drawGlyph from row on: the pixel writes it issues.
RECURSIVE drawGlyphRows(_, _, _, _, _, _, _)
drawGlyphRows(x, y, glyph, font, color, row, bitIndex) ==
  IF row < glyph.height
  THEN LET r == drawGlyphCols(x, y, glyph, font, color, row, 0, bitIndex)
       IN  r.writes
           \o drawGlyphRows(x, y, glyph, font, color, row + 1, r.bitIndex)
  ELSE <<>>

\* drawGlyph with the early return giving 0 for every glyph it does not
\* draw, a zero-width glyph included.
drawGlyph_ZeroWidthReturns0(d, x, y, charCode, font, color) ==
  IF ~HasGlyph(font, charCode) \/ font.glyphs[charCode].width = 0
  THEN [dc |-> d, ret |-> 0]
  ELSE LET glyph == font.glyphs[charCode]
       IN  [dc |-> d \o drawGlyphRows(x, y, glyph, font, color, 0, 0),
            ret |-> glyph.xAdvance]

\* drawGlyph substituting the glyph of font.first for a code the font lacks.
drawGlyph_FallbackGlyph(d, x, y, charCode, font, color) ==
  LET code == IF HasGlyph(font, charCode) THEN charCode ELSE font.first
  IN  IF ~HasGlyph(font, code) \/ font.glyphs[code].width = 0
      THEN [dc |-> d,
            ret |-> IF HasGlyph(font, code)
                    THEN font.glyphs[code].xAdvance ELSE 0]
      ELSE LET glyph == font.glyphs[code]
           IN  [dc |-> d \o drawGlyphRows(x, y, glyph, font, color, 0, 0),
                ret |-> glyph.xAdvance]

\* drawGlyph returning the width of the glyph it drew.
drawGlyph_ReturnsWidth(d, x, y, charCode, font, color) ==
  IF ~HasGlyph(font, charCode) \/ font.glyphs[charCode].width = 0
  THEN [dc |-> d,
        ret |-> IF HasGlyph(font, charCode)
                THEN font.glyphs[charCode].xAdvance ELSE 0]
  ELSE LET glyph == font.glyphs[charCode]
       IN  [dc |-> d \o drawGlyphRows(x, y, glyph, font, color, 0, 0),
            ret |-> glyph.width]

\* drawGlyph(dc, x, y, charCode, font, color): the context after the call
\* and the advance returned.
drawGlyph(d, x, y, charCode, font, color) ==
  IF ~HasGlyph(font, charCode) \/ font.glyphs[charCode].width = 0
  THEN [dc |-> d,
        ret |-> IF HasGlyph(font, charCode)
                THEN font.glyphs[charCode].xAdvance ELSE 0]
  ELSE LET glyph == font.glyphs[charCode]
       IN  [dc |-> d \o drawGlyphRows(x, y, glyph, font, color, 0, 0),
            ret |-> glyph.xAdvance]

----------------------------------------------------------------------------
(* fonts: drawText, getTextWidth, getTextBounds.                           *)

\* drawText's loop assigning the advance to cursorX instead of adding it.
RECURSIVE drawTextLoop_AssignsAdvance(_, _, _, _, _, _, _)
drawTextLoop_AssignsAdvance(d, text, i, cx, y, font, color) ==
  IF i <= Len(text)
  THEN LET r == drawGlyph(d, cx, y, CharCodeAt0(text[i]), font, color)
       IN  drawTextLoop_AssignsAdvance(r.dc, text, i + 1, r.ret, y, font,
                                       color)
  ELSE [dc |-> d, cursorX |-> cx]

\* drawText's loop leaving one pixel of spacing between two characters.
RECURSIVE drawTextLoop_LetterSpacing(_, _, _, _, _, _, _)
drawTextLoop_LetterSpacing(d, text, i, cx, y, font, color) ==
  IF i <= Len(text)
  THEN LET r == drawGlyph(d, cx, y, CharCodeAt0(text[i]), font, color)
       IN  drawTextLoop_LetterSpacing(r.dc, text, i + 1,
             cx + r.ret + (IF i < Len(text) THEN 1 ELSE 0), y, font, color)
  ELSE [dc |-> d, cursorX |-> cx]

\* The loop of drawText from the i-th character on.
RECURSIVE drawTextLoop(_, _, _, _, _, _, _)
drawTextLoop(d, text, i, cx, y, font, color) ==
  IF i <= Len(text)
  THEN LET r == drawGlyph(d, cx, y, CharCodeAt0(text[i]), font, color)
       IN  drawTextLoop(r.dc, text, i + 1, cx + r.ret, y, font, color)
  ELSE [dc |-> d, cursorX |-> cx]

drawText(d, text, x, y, font, color) ==
  drawTextLoop(d, text, 1, x, y, font, color)

\* getTextWidth's loop counting only the glyphs that have a width.
RECURSIVE getTextWidthLoop_SkipsZeroWidth(_, _, _, _)
getTextWidthLoop_SkipsZeroWidth(text, i, width, font) ==
  IF i <= Len(text)
  THEN LET code == CharCodeAt0(text[i])
       IN  IF HasGlyph(font, code) /\ font.glyphs[code].width # 0
           THEN getTextWidthLoop_SkipsZeroWidth(text, i + 1,
                  width + font.glyphs[code].xAdvance, font)
           ELSE getTextWidthLoop_SkipsZeroWidth(text, i + 1, width, font)
  ELSE width

\* The loop of getTextWidth from the i-th character on.
RECURSIVE getTextWidthLoop(_, _, _, _)
getTextWidthLoop(text, i, width, font) ==
  IF i <= Len(text)
  THEN LET code == CharCodeAt0(text[i])
       IN  IF HasGlyph(font, code)
           THEN getTextWidthLoop(text, i + 1,
                                 width + font.glyphs[code].xAdvance, font)
           ELSE getTextWidthLoop(text, i + 1, width, font)
  ELSE width

getTextWidth(text, font) == getTextWidthLoop(text, 1, 0, font)

\* getTextBounds' loop body keeping the extents of the first glyph: later
\* glyphs add to the width only.
getTextBoundsStep_FirstGlyphOnly(st, code, font) ==
  IF HasGlyph(font, code)
  THEN LET glyph == font.glyphs[code]
       IN  IF st.first
           THEN [width |-> st.width + glyph.xAdvance, minY |-> glyph.yOffset,
                 maxY |-> glyph.yOffset + glyph.height, first |-> FALSE]
           ELSE [st EXCEPT !.width = st.width + glyph.xAdvance]
  ELSE st

\* getTextBounds' loop body without the first-glyph case: minY and maxY
\* only ever extend from their initial 0.
getTextBoundsStep_NoFirst(st, code, font) ==
  IF HasGlyph(font, code)
  THEN LET glyph == font.glyphs[code]
           top == glyph.yOffset
           bottom == glyph.yOffset + glyph.height
       IN  [width |-> st.width + glyph.xAdvance,
            minY |-> IF top < st.minY THEN top ELSE st.minY,
            maxY |-> IF bottom > st.maxY THEN bottom ELSE st.maxY,
            first |-> FALSE]
  ELSE st

\* One iteration of the loop of getTextBounds on the locals
\* st = [width, minY, maxY, first].
getTextBoundsStep(st, code, font) ==
  IF HasGlyph(font, code)
  THEN LET glyph == font.glyphs[code]
           top == glyph.yOffset
           bottom == glyph.yOffset + glyph.height
       IN  IF st.first
           THEN [width |-> st.width + glyph.xAdvance, minY |-> top,
                 maxY |-> bottom, first |-> FALSE]
           ELSE [width |-> st.width + glyph.xAdvance,
                 minY |-> IF top < st.minY THEN top ELSE st.minY,
                 maxY |-> IF bottom > st.maxY THEN bottom ELSE st.maxY,
                 first |-> FALSE]
  ELSE st

RECURSIVE getTextBoundsLoop(_, _, _, _)
getTextBoundsLoop(text, i, st, font) ==
  IF i <= Len(text)
  THEN getTextBoundsLoop(text, i + 1,
                         getTextBoundsStep(st, CharCodeAt0(text[i]), font),
                         font)
  ELSE st

\* getTextBounds giving the font's line height to a string with no glyph.
getTextBounds_LineHeightWhenEmpty(text, font) ==
  LET st == getTextBoundsLoop(text, 1,
              [width |-> 0, minY |-> 0, maxY |-> 0, first |-> TRUE], font)
  IN  [w |-> st.width,
       h |-> IF st.first THEN font.yAdvance ELSE st.maxY - st.minY,
       yMin |-> st.minY, yMax |-> st.maxY]

getTextBounds(text, font) ==
  LET st == getTextBoundsLoop(text, 1,
              [width |-> 0, minY |-> 0, maxY |-> 0, first |-> TRUE], font)
  IN  [w |-> st.width, h |-> st.maxY - st.minY,
       yMin |-> st.minY, yMax |-> st.maxY]

\* getGlyph(font, charCode): font.glyphs[charCode], undefined for a code
\* the font has no entry for.
getGlyph(font, charCode) ==
  IF HasGlyph(font, charCode) THEN font.glyphs[charCode]
  ELSE [type |-> "undefined"]

hasChar(font, charCode) ==
  /\ charCode >= font.first
  /\ charCode <= font.last
  /\ getGlyph(font, charCode) # [type |-> "undefined"]

\* Variant: the remainder of the division is dropped toward zero.
drawTextCentered_TruncatesTowardZero(d, text, x, y, width, font, color) ==
  LET textW == getTextWidth(text, font)
      half == IF width - textW >= 0 THEN (width - textW) \div 2
              ELSE 0 - ((textW - width) \div 2)
      r == drawText(d, text, x + half, y, font, color)
  IN  [dc |-> r.dc, cursorX |-> r.cursorX, startX |-> x + half]

\* drawTextCentered: the draw, with the start position handed to drawText.
drawTextCentered(d, text, x, y, width, font, color) ==
  LET textW == getTextWidth(text, font)
      sx == x + FloorDiv(width - textW, 2)
      r == drawText(d, text, sx, y, font, color)
  IN  [dc |-> r.dc, cursorX |-> r.cursorX, startX |-> sx]

\* Variant: the text starts at rightX.
drawTextRightAligned_StartsAtRightX(d, text, rightX, y, font, color) ==
  LET r == drawText(d, text, rightX, y, font, color)
  IN  [dc |-> r.dc, cursorX |-> r.cursorX, startX |-> rightX]

\* drawTextRightAligned: the draw, with the start position handed to
\* drawText.
drawTextRightAligned(d, text, rightX, y, font, color) ==
  LET textW == getTextWidth(text, font)
      r == drawText(d, text, rightX - textW, y, font, color)
  IN  [dc |-> r.dc, cursorX |-> r.cursorX, startX |-> rightX - textW]

\* The fonts, target widths and right edges of the aligned draws.
AlignedFonts == {f \in Fonts : f.bitmap = <<91, 60, 255>>}
Widths == {0, 7}
RightXs == {0, 20}

----------------------------------------------------------------------------
(* primitives: drawXBitmap.                                                *)

XBitmaps == { <<1>>, <<165, 1, 90, 3>>, <<255, 255>> }
XbmWidths == {3, 8, 9}
XbmHeights == {1, 2}

\* drawXBitmap's inner loop reading each byte from its high bit down.
RECURSIVE drawXBitmapCols_MsbFirst(_, _, _, _, _, _, _, _)
drawXBitmapCols_MsbFirst(x, y, bitmap, w, color, bytesPerRow, row, col) ==
  IF col < w
  THEN LET byteIndex == row * bytesPerRow + FloorDiv(col, 8)
           bitIndex == 7 - (col % 8)
           here == IF BitAnd(ByteAt(bitmap, byteIndex),
                             ShiftLeft1(bitIndex)) # 0
                   THEN drawPixel(<<>>, x + col, y + row, color)
                   ELSE <<>>
       IN  here \o drawXBitmapCols_MsbFirst(x, y, bitmap, w, color, bytesPerRow, row,
                     col + 1)
  ELSE <<>>

\* Variant: an unset bit is drawn in the background colour.
RECURSIVE drawXBitmapCols_Opaque(_, _, _, _, _, _, _, _)
drawXBitmapCols_Opaque(x, y, bitmap, w, color, bytesPerRow, row, col) ==
  IF col < w
  THEN LET byteIndex == row * bytesPerRow + FloorDiv(col, 8)
           bitIndex == col % 8
           here == IF BitAnd(ByteAt(bitmap, byteIndex),
                             ShiftLeft1(bitIndex)) # 0
                   THEN drawPixel(<<>>, x + col, y + row, color)
                   ELSE drawPixel(<<>>, x + col, y + row, "#FFFFFF")
       IN  here \o drawXBitmapCols_Opaque(x, y, bitmap, w, color, bytesPerRow,
                     row, col + 1)
  ELSE <<>>

\* The inner loop of drawXBitmap from column col of one row on: the pixel
\* writes it issues, in order.
RECURSIVE drawXBitmapCols(_, _, _, _, _, _, _, _)
drawXBitmapCols(x, y, bitmap, w, color, bytesPerRow, row, col) ==
  IF col < w
  THEN LET byteIndex == row * bytesPerRow + FloorDiv(col, 8)
           bitIndex == col % 8
           here == IF BitAnd(ByteAt(bitmap, byteIndex),
                             ShiftLeft1(bitIndex)) # 0
                   THEN drawPixel(<<>>, x + col, y + row, color)
                   ELSE <<>>
       IN  here \o drawXBitmapCols(x, y, bitmap, w, color, bytesPerRow, row,
                     col + 1)
  ELSE <<>>

\* The outer loop of drawXBitmap from row on: the pixel writes it issues.
RECURSIVE drawXBitmapRows(_, _, _, _, _, _, _, _)
drawXBitmapRows(x, y, bitmap, w, h, color, bytesPerRow, row) ==
  IF row < h
  THEN drawXBitmapCols(x, y, bitmap, w, color, bytesPerRow, row, 0)
       \o drawXBitmapRows(x, y, bitmap, w, h, color, bytesPerRow, row + 1)
  ELSE <<>>

drawXBitmap(d, x, y, bitmap, w, h, color) ==
  d \o drawXBitmapRows(x, y, bitmap, w, h, color, CeilDiv(w, 8), 0)

----------------------------------------------------------------------------
(* primitives: drawXBitmapScaled.  Its scale factors are JavaScript        *)
(* numbers, IEEE 754 doubles: srcW / destW is rounded to 53 significant    *)
(* bits, and so is its product with the destination coordinate.  A double  *)
(* is kept as its significand, a sequence of bits with the most            *)
(* significant first, and the exponent e of its last bit: the value is     *)
(* significand * 2^e.                                                      *)

SignificandBits == 53

\* The binary digits of an integer 0 <= n < 2^30, most significant first,
\* and the digits of n < 2^width padded to width.
BitsOf(n) ==
  LET k == CHOOSE j \in 0 .. 30 : n < 2 ^ j /\ (j = 0 \/ n >= 2 ^ (j - 1))
  IN  [i \in 1 .. k |-> (n \div (2 ^ (k - i))) % 2]
BitsPadded(n, width) == [i \in 1 .. width |-> (n \div (2 ^ (width - i))) % 2]

\* The integer a sequence of at most 30 binary digits denotes.
RECURSIVE BitsToInt(_)
BitsToInt(bits) ==
  IF bits = <<>> THEN 0
  ELSE 2 * BitsToInt(SubSeq(bits, 1, Len(bits) - 1)) + bits[Len(bits)]

\* A sequence of binary digits without its leading zeros.
StripZeros(bits) ==
  LET ones == {i \in DOMAIN bits : bits[i] = 1}
  IN  IF ones = {} THEN <<>>
      ELSE SubSeq(bits, CHOOSE i \in ones : \A j \in ones : i <= j, Len(bits))

\* The next count hexadecimal digits of r / b (0 <= r < b) after the
\* point, and the remainder left after them.
FractionDigits == 18
RECURSIVE FractionHex(_, _, _)
FractionHex(r, b, count) ==
  IF count = 0 THEN [digits |-> <<>>, r |-> r]
  ELSE LET rest == FractionHex((16 * r) % b, b, count - 1)
       IN  [digits |-> <<(16 * r) \div b>> \o rest.digits, r |-> rest.r]

\* The binary digits of a sequence of hexadecimal digits.
HexToBits(digits) ==
  [i \in 1 .. 4 * Len(digits) |->
     (digits[((i - 1) \div 4) + 1] \div (2 ^ (3 - ((i - 1) % 4)))) % 2]

\* A significand plus one unit in its last place.
IncrementBits(bits) ==
  LET zeros == {i \in DOMAIN bits : bits[i] = 0}
  IN  IF zeros = {} THEN <<1>> \o [i \in DOMAIN bits |-> 0]
      ELSE LET last == CHOOSE i \in zeros : \A j \in zeros : i >= j
           IN  [i \in DOMAIN bits |->
                  IF i < last THEN bits[i] ELSE IF i = last THEN 1 ELSE 0]

\* Round to nearest, ties to even: the exact value bits * 2^exponent (bits
\* without leading zeros), plus a non-zero amount below its last bit when
\* sticky, as a double.
RoundToDouble(bits, sticky, exponent) ==
  IF Len(bits) <= SignificandBits
  THEN [finite |-> TRUE, m |-> bits, e |-> exponent]
  ELSE LET keep == SubSeq(bits, 1, SignificandBits)
           drop == SubSeq(bits, SignificandBits + 1, Len(bits))
           below == sticky \/ \E i \in 2 .. Len(drop) : drop[i] = 1
           up == drop[1] = 1 /\ (below \/ keep[SignificandBits] = 1)
           sum == IF up THEN IncrementBits(keep) ELSE keep
       IN  IF Len(sum) > SignificandBits
           THEN [finite |-> TRUE, m |-> SubSeq(sum, 1, SignificandBits),
                 e |-> exponent + Len(drop) + 1]
           ELSE [finite |-> TRUE, m |-> sum, e |-> exponent + Len(drop)]

\* a / b on integers 0 < a < 2^15, 0 <= b < 2^15 held as numbers: the
\* quotient rounded to a double; Infinity for b = 0.
DoubleDivide(a, b) ==
  IF b = 0 THEN [finite |-> FALSE, m |-> <<>>, e |-> 0]
  ELSE LET frac == FractionHex(a % b, b, FractionDigits)
       IN  RoundToDouble(
             StripZeros(BitsOf(a \div b) \o HexToBits(frac.digits)),
             frac.r # 0, 0 - 4 * FractionDigits)

\* Variant: Math.ceil in place of Math.floor.
MathFloorTimes_Ceiling(c, scale) ==
  IF c = 0 THEN 0
  ELSE LET t0 == BitsToInt(SubSeq(scale.m, 36, 53)) * c
           t1 == BitsToInt(SubSeq(scale.m, 18, 35)) * c + (t0 \div (2 ^ 18))
           t2 == BitsToInt(SubSeq(scale.m, 1, 17)) * c + (t1 \div (2 ^ 18))
           product == BitsOf(t2) \o BitsPadded(t1 % (2 ^ 18), 18)
                                 \o BitsPadded(t0 % (2 ^ 18), 18)
           p == RoundToDouble(product, FALSE, scale.e)
           whole == Len(p.m) + p.e
       IN  IF whole <= 0 THEN 1
           ELSE BitsToInt(SubSeq(p.m, 1, whole))
                  + (IF \E i \in (whole + 1) .. Len(p.m) : p.m[i] = 1
                     THEN 1 ELSE 0)

\* Math.floor(c * scale) for an integer 0 <= c < 2^12 and a finite double
\* scale > 0 with a significand of 53 bits: the product, computed on three
\* limbs of the significand, is rounded to a double before the floor.
MathFloorTimes(c, scale) ==
  IF c = 0 THEN 0
  ELSE LET t0 == BitsToInt(SubSeq(scale.m, 36, 53)) * c
           t1 == BitsToInt(SubSeq(scale.m, 18, 35)) * c + (t0 \div (2 ^ 18))
           t2 == BitsToInt(SubSeq(scale.m, 1, 17)) * c + (t1 \div (2 ^ 18))
           product == BitsOf(t2) \o BitsPadded(t1 % (2 ^ 18), 18)
                                 \o BitsPadded(t0 % (2 ^ 18), 18)
           p == RoundToDouble(product, FALSE, scale.e)
           whole == Len(p.m) + p.e
       IN  IF whole <= 0 THEN 0 ELSE BitsToInt(SubSeq(p.m, 1, whole))

\* (srcW, destW) and (srcH, destH) of the scaled draws: scale 1, integer
\* up-scales, down-scales, a ratio that is not a binary fraction, and a
\* destination of size 0.
ScaledBitmaps == { <<165, 1, 90, 3>>, <<255, 127, 0, 128>> }
ScaleWidths == { <<3, 3>>, <<8, 8>>, <<3, 6>>, <<9, 4>>, <<30, 22>>, <<8, 0>> }
ScaleHeights == { <<1, 1>>, <<2, 2>>, <<1, 2>>, <<2, 1>>, <<2, 0>> }

\* Variant: the bit of a source column is taken most-significant first.
RECURSIVE drawXBitmapScaledCols_MsbFirst(_, _, _, _, _, _, _, _, _, _)
drawXBitmapScaledCols_MsbFirst(x, y, bitmap, bytesPerRow, scaleX, srcRow, destW, color, destRow, destCol) ==
  IF destCol < destW
  THEN LET srcCol == MathFloorTimes(destCol, scaleX)
           byteIndex == srcRow * bytesPerRow + FloorDiv(srcCol, 8)
           bitIndex == 7 - (srcCol % 8)
           here == IF BitAnd(ByteAt(bitmap, byteIndex), ShiftLeft1(bitIndex)) # 0
                   THEN drawPixel(<<>>, x + destCol, y + destRow, color)
                   ELSE <<>>
       IN  here \o drawXBitmapScaledCols_MsbFirst(x, y, bitmap, bytesPerRow,
                     scaleX, srcRow, destW, color, destRow, destCol + 1)
  ELSE <<>>

\* The inner loop of drawXBitmapScaled from destCol on, in destination row
\* destRow: the pixel writes it issues, in order.  srcRow, which the code
\* recomputes in every iteration, depends on destRow only.
RECURSIVE drawXBitmapScaledCols(_, _, _, _, _, _, _, _, _, _)
drawXBitmapScaledCols(x, y, bitmap, bytesPerRow, scaleX, srcRow, destW, color, destRow, destCol) ==
  IF destCol < destW
  THEN LET srcCol == MathFloorTimes(destCol, scaleX)
           byteIndex == srcRow * bytesPerRow + FloorDiv(srcCol, 8)
           bitIndex == srcCol % 8
           here == IF BitAnd(ByteAt(bitmap, byteIndex), ShiftLeft1(bitIndex)) # 0
                   THEN drawPixel(<<>>, x + destCol, y + destRow, color)
                   ELSE <<>>
       IN  here \o drawXBitmapScaledCols(x, y, bitmap, bytesPerRow, scaleX,
                     srcRow, destW, color, destRow, destCol + 1)
  ELSE <<>>

\* The outer loop of drawXBitmapScaled from destRow on.
RECURSIVE drawXBitmapScaledRows(_, _, _, _, _, _, _, _, _, _)
drawXBitmapScaledRows(x, y, bitmap, bytesPerRow, scaleX, scaleY, destW, destH, color, destRow) ==
  IF destRow < destH
  THEN drawXBitmapScaledCols(x, y, bitmap, bytesPerRow, scaleX,
                             MathFloorTimes(destRow, scaleY),
                             destW, color, destRow, 0)
       \o drawXBitmapScaledRows(x, y, bitmap, bytesPerRow, scaleX, scaleY,
                                destW, destH, color, destRow + 1)
  ELSE <<>>

\* Variant: a destination size of 0 is taken as 1.
drawXBitmapScaled_AtLeastOnePixel(d, x, y, bitmap, srcW, srcH, destW, destH, color) ==
  LET dw == IF destW < 1 THEN 1 ELSE destW
      dh == IF destH < 1 THEN 1 ELSE destH
  IN  d \o drawXBitmapScaledRows(x, y, bitmap, CeilDiv(srcW, 8),
                                 DoubleDivide(srcW, dw),
                                 DoubleDivide(srcH, dh), dw, dh, color, 0)

drawXBitmapScaled(d, x, y, bitmap, srcW, srcH, destW, destH, color) ==
  d \o drawXBitmapScaledRows(x, y, bitmap, CeilDiv(srcW, 8),
                             DoubleDivide(srcW, destW),
                             DoubleDivide(srcH, destH),
                             destW, destH, color, 0)

----------------------------------------------------------------------------
(* fonts: the built-in 5x7 font.                                           *)

BUILTIN_5X7_FONT ==
  <<0, 0, 0, 0, 0,
     0, 0, 95, 0, 0,
     0, 7, 0, 7, 0,
     20, 127, 20, 127, 20,
     36, 42, 127, 42, 18,
     35, 19, 8, 100, 98,
     54, 73, 85, 34, 80,
     0, 5, 3, 0, 0,
     0, 28, 34, 65, 0,
     0, 65, 34, 28, 0,
     8, 42, 28, 42, 8,
     8, 8, 62, 8, 8,
     0, 80, 48, 0, 0,
     8, 8, 8, 8, 8,
     0, 96, 96, 0, 0,
     32, 16, 8, 4, 2,
     62, 81, 73, 69, 62,
     0, 66, 127, 64, 0,
     66, 97, 81, 73, 70,
     33, 65, 69, 75, 49,
     24, 20, 18, 127, 16,
     39, 69, 69, 69, 57,
     60, 74, 73, 73, 48,
     1, 113, 9, 5, 3,
     54, 73, 73, 73, 54,
     6, 73, 73, 41, 30,
     0, 54, 54, 0, 0,
     0, 86, 54, 0, 0,
     0, 8, 20, 34, 65,
     20, 20, 20, 20, 20,
     65, 34, 20, 8, 0,
     2, 1, 81, 9, 6,
     50, 73, 121, 65, 62,
     126, 17, 17, 17, 126,
     127, 73, 73, 73, 54,
     62, 65, 65, 65, 34,
     127, 65, 65, 34, 28,
     127, 73, 73, 73, 65,
     127, 9, 9, 1, 1,
     62, 65, 65, 81, 50,
     127, 8, 8, 8, 127,
     0, 65, 127, 65, 0,
     32, 64, 65, 63, 1,
     127, 8, 20, 34, 65,
     127, 64, 64, 64, 64,
     127, 2, 4, 2, 127,
     127, 4, 8, 16, 127,
     62, 65, 65, 65, 62,
     127, 9, 9, 9, 6,
     62, 65, 81, 33, 94,
     127, 9, 25, 41, 70,
     70, 73, 73, 73, 49,
     1, 1, 127, 1, 1,
     63, 64, 64, 64, 63,
     31, 32, 64, 32, 31,
     127, 32, 24, 32, 127,
     99, 20, 8, 20, 99,
     3, 4, 120, 4, 3,
     97, 81, 73, 69, 67,
     0, 0, 127, 65, 65,
     2, 4, 8, 16, 32,
     65, 65, 127, 0, 0,
     4, 2, 1, 2, 4,
     64, 64, 64, 64, 64,
     0, 1, 2, 4, 0,
     32, 84, 84, 84, 120,
     127, 72, 68, 68, 56,
     56, 68, 68, 68, 32,
     56, 68, 68, 72, 127,
     56, 84, 84, 84, 24,
     8, 126, 9, 1, 2,
     8, 20, 84, 84, 60,
     127, 8, 4, 4, 120,
     0, 68, 125, 64, 0,
     32, 64, 68, 61, 0,
     0, 127, 16, 40, 68,
     0, 65, 127, 64, 0,
     124, 4, 24, 4, 120,
     124, 8, 4, 4, 120,
     56, 68, 68, 68, 56,
     124, 20, 20, 20, 8,
     8, 20, 20, 24, 124,
     124, 8, 4, 4, 8,
     72, 84, 84, 84, 32,
     4, 63, 68, 64, 32,
     60, 64, 64, 32, 124,
     28, 32, 64, 32, 28,
     60, 64, 48, 64, 60,
     68, 40, 16, 40, 68,
     12, 80, 80, 80, 60,
     68, 100, 84, 76, 68,
     0, 8, 54, 65, 0,
     0, 0, 127, 0, 0,
     0, 65, 54, 8, 0,
     8, 8, 42, 28, 8,
     8, 28, 42, 8, 8 >>

BuiltinChars == {31, 33, 65, 127, 128, 128512}

\* drawBuiltinChar's inner loop taking bit 6 of the column as the top row.
RECURSIVE drawBuiltinCharRows_TopIsBit6(_, _, _, _, _, _)
drawBuiltinCharRows_TopIsBit6(x, y, color, column, col, row) ==
  IF row < 7
  THEN LET here == IF BitAnd(column, ShiftLeft1(6 - row)) # 0
                   THEN drawPixel(<<>>, x + col, y + row, color)
                   ELSE <<>>
       IN  here \o drawBuiltinCharRows_TopIsBit6(x, y, color, column, col, row + 1)
  ELSE <<>>

\* The inner loop of drawBuiltinChar from row on, for one column byte: the
\* pixel writes it issues, in order.
RECURSIVE drawBuiltinCharRows(_, _, _, _, _, _)
drawBuiltinCharRows(x, y, color, column, col, row) ==
  IF row < 7
  THEN LET here == IF BitAnd(column, ShiftLeft1(row)) # 0
                   THEN drawPixel(<<>>, x + col, y + row, color)
                   ELSE <<>>
       IN  here \o drawBuiltinCharRows(x, y, color, column, col, row + 1)
  ELSE <<>>

\* drawBuiltinChar's outer loop running over six columns, the spacing
\* column included.
RECURSIVE drawBuiltinCharCols_SixColumns(_, _, _, _, _)
drawBuiltinCharCols_SixColumns(x, y, color, index, col) ==
  IF col < 6
  THEN drawBuiltinCharRows(x, y, color,
                           ByteAt(BUILTIN_5X7_FONT, index + col), col, 0)
       \o drawBuiltinCharCols_SixColumns(x, y, color, index, col + 1)
  ELSE <<>>

\* The outer loop of drawBuiltinChar from column col on.
RECURSIVE drawBuiltinCharCols(_, _, _, _, _)
drawBuiltinCharCols(x, y, color, index, col) ==
  IF col < 5
  THEN drawBuiltinCharRows(x, y, color,
                           ByteAt(BUILTIN_5X7_FONT, index + col), col, 0)
       \o drawBuiltinCharCols(x, y, color, index, col + 1)
  ELSE <<>>

drawBuiltinChar(d, x, y, char, color) ==
  LET code == CharCodeAt0(char)
  IN  IF code < 32 \/ code > 127
      THEN d
      ELSE d \o drawBuiltinCharCols(x, y, color, (code - 32) * 5, 0)

\* The JavaScript values null and undefined, where a font or a colour may
\* be one of them.
Null == [type |-> "null"]
Undefined == [type |-> "undefined"]

\* DEFAULT_CONFIG.foreground, the simulator's initial text colour.
Foreground == "#000000"

\* Strings of at most n code points over an alphabet.
RECURSIVE StringsOver(_, _)
StringsOver(alphabet, n) ==
  IF n = 0 THEN {<<>>}
  ELSE LET shorter == StringsOver(alphabet, n - 1)
       IN  shorter \cup {Append(s, c) : s \in {t \in shorter : Len(t) = n - 1},
                                        c \in alphabet}

\* Code points of the strings given to the built-in font: a control
\* character, a printable one, the first code above 0x7F, and an astral one.
BuiltinAlphabet == {31, 65, 128, 128512}
BuiltinTexts == StringsOver(BuiltinAlphabet, MaxLen)

\* text.length: the number of UTF-16 code units, two for an astral code
\* point.
RECURSIVE Utf16Length(_)
Utf16Length(text) ==
  IF text = <<>> THEN 0
  ELSE (IF Head(text) >= 65536 THEN 2 ELSE 1) + Utf16Length(Tail(text))

\* Variant: the cursor moves on only past a character the table has.
RECURSIVE drawBuiltinTextLoop_SkipsUnsupported(_, _, _, _, _)
drawBuiltinTextLoop_SkipsUnsupported(text, i, cursorX0, y, color) ==
  IF i <= Len(text)
  THEN LET code == CharCodeAt0(text[i])
           step == IF code < 32 \/ code > 127 THEN 0 ELSE 6
           rest == drawBuiltinTextLoop_SkipsUnsupported(text, i + 1,
                                                        cursorX0 + step, y, color)
       IN  [writes |-> drawBuiltinChar(<<>>, cursorX0, y, text[i], color)
                       \o rest.writes,
            cursorX |-> rest.cursorX]
  ELSE [writes |-> <<>>, cursorX |-> cursorX0]

\* The for..of loop of drawBuiltinText from the i-th character on, with
\* the cursor at cursorX0: the pixel writes it issues and the cursor at exit.
RECURSIVE drawBuiltinTextLoop(_, _, _, _, _)
drawBuiltinTextLoop(text, i, cursorX0, y, color) ==
  IF i <= Len(text)
  THEN LET rest == drawBuiltinTextLoop(text, i + 1, cursorX0 + 6, y, color)
       IN  [writes |-> drawBuiltinChar(<<>>, cursorX0, y, text[i], color)
                       \o rest.writes,
            cursorX |-> rest.cursorX]
  ELSE [writes |-> <<>>, cursorX |-> cursorX0]

drawBuiltinText(d, text, x, y, color) ==
  LET r == drawBuiltinTextLoop(text, 1, x, y, color)
  IN  [dc |-> d \o r.writes, cursorX |-> r.cursorX]

\* Variant: only the characters the table has count.
getBuiltinTextWidth_PrintableOnly(text) ==
  6 * Cardinality({i \in DOMAIN text :
                     CharCodeAt0(text[i]) >= 32 /\ CharCodeAt0(text[i]) <= 127})

getBuiltinTextWidth(text) == Utf16Length(text) * 6

----------------------------------------------------------------------------
(* simulator: the text methods of EinkSimulator.  this is the simulator's  *)
(* state the methods read: its drawing context, currentFont and textColor. *)

\* font ?? b: b when the font is null or undefined.
Nullish(v) == v = Null \/ v = Undefined
Coalesce(a, b) == IF Nullish(a) THEN b ELSE a

\* color ?? b, for a colour argument that is a string or is left out.
UndefinedColor == "undefined"
CoalesceColor(a, b) == IF a = UndefinedColor THEN b ELSE a

\* The fonts handed to the simulator, the font and colour arguments of its
\* methods (undefined: the argument is left out).
SimFonts ==
  {f \in AlignedFonts :
     /\ DOMAIN f.glyphs = {65, 66}
     /\ f.glyphs[65] = Glyph(0, 5, 3, 4, 0, -3)
     /\ f.glyphs[66] \in {Glyph(1, 3, 2, 0, -1, 1), Glyph(2, 2, 2, 3, 0, -2)}}
FontArgs == {Undefined, Null} \cup SimFonts
ColorArgs == {UndefinedColor} \cup Colors

\* Variant: only the font argument counts, currentFont is not consulted.
EinkSimulator_drawText_IgnoresCurrentFont(this, text, x, y, font, color) ==
  LET useColor == CoalesceColor(color, this.textColor)
  IN  IF ~Nullish(font)
      THEN drawText(this.dc, text, x, y, font, useColor)
      ELSE drawBuiltinText(this.dc, text, x, y, useColor)

EinkSimulator_drawText(this, text, x, y, font, color) ==
  LET useFont == Coalesce(font, this.currentFont)
      useColor == CoalesceColor(color, this.textColor)
  IN  IF ~Nullish(useFont)
      THEN drawText(this.dc, text, x, y, useFont, useColor)
      ELSE drawBuiltinText(this.dc, text, x, y, useColor)

EinkSimulator_drawTextCentered(this, text, x, y, width, font, color) ==
  LET useFont == Coalesce(font, this.currentFont)
      useColor == CoalesceColor(color, this.textColor)
  IN  IF ~Nullish(useFont)
      THEN drawTextCentered(this.dc, text, x, y, width, useFont, useColor)
      ELSE LET textW == getBuiltinTextWidth(text)
               sx == x + FloorDiv(width - textW, 2)
               r == drawBuiltinText(this.dc, text, sx, y, useColor)
           IN  [dc |-> r.dc, cursorX |-> r.cursorX, startX |-> sx]

EinkSimulator_drawTextRightAligned(this, text, rightX, y, font, color) ==
  LET useFont == Coalesce(font, this.currentFont)
      useColor == CoalesceColor(color, this.textColor)
  IN  IF ~Nullish(useFont)
      THEN drawTextRightAligned(this.dc, text, rightX, y, useFont, useColor)
      ELSE LET textW == getBuiltinTextWidth(text)
               r == drawBuiltinText(this.dc, text, rightX - textW, y, useColor)
           IN  [dc |-> r.dc, cursorX |-> r.cursorX, startX |-> rightX - textW]

EinkSimulator_getTextWidth(this, text, font) ==
  LET useFont == Coalesce(font, this.currentFont)
  IN  IF ~Nullish(useFont) THEN getTextWidth(text, useFont)
      ELSE getBuiltinTextWidth(text)

\* Variant: with the built-in font, a string of no characters has no height.
EinkSimulator_getTextBounds_EmptyHasNoHeight(this, text, font) ==
  LET useFont == Coalesce(font, this.currentFont)
  IN  IF ~Nullish(useFont) THEN getTextBounds(text, useFont)
      ELSE [w |-> getBuiltinTextWidth(text),
            h |-> IF Len(text) = 0 THEN 0 ELSE 7, yMin |-> 0, yMax |-> 7]

EinkSimulator_getTextBounds(this, text, font) ==
  LET useFont == Coalesce(font, this.currentFont)
  IN  IF ~Nullish(useFont) THEN getTextBounds(text, useFont)
      ELSE [w |-> getBuiltinTextWidth(text), h |-> 7, yMin |-> 0, yMax |-> 7]

----------------------------------------------------------------------------
(* primitives: the shape functions.  Each issues one drawing call on the   *)
(* canvas with fillStyle or strokeStyle set to its colour just before;     *)
(* the call is recorded with its arguments.  Stroked geometry is offset by *)
(* half a pixel in the source, so its coordinates are recorded in half     *)
(* pixels (x + 0.5 is 2 * x + 1).                                          *)

CanvasCall(name, args, color) == [draw |-> name, args |-> args, color |-> color]

drawLine(d, x0, y0, x1, y1, color) ==
  Append(d, CanvasCall("stroke line",
                       <<2 * x0 + 1, 2 * y0 + 1, 2 * x1 + 1, 2 * y1 + 1>>,
                       color))

fillRect(d, x, y, w, h, color) ==
  Append(d, CanvasCall("fillRect", <<x, y, w, h>>, color))

drawHLine(d, x, y, w, color) ==
  Append(d, CanvasCall("fillRect", <<x, y, w, 1>>, color))

drawVLine(d, x, y, h, color) ==
  Append(d, CanvasCall("fillRect", <<x, y, 1, h>>, color))

drawRect(d, x, y, w, h, color) ==
  Append(d, CanvasCall("strokeRect",
                       <<2 * x + 1, 2 * y + 1, 2 * (w - 1), 2 * (h - 1)>>,
                       color))

drawCircle(d, x, y, r, color) ==
  Append(d, CanvasCall("stroke arc", <<x, y, r>>, color))

fillCircle(d, x, y, r, color) ==
  Append(d, CanvasCall("fill arc", <<x, y, r>>, color))

drawTriangle(d, x0, y0, x1, y1, x2, y2, color) ==
  Append(d, CanvasCall("stroke path",
                       <<2 * x0 + 1, 2 * y0 + 1, 2 * x1 + 1, 2 * y1 + 1,
                         2 * x2 + 1, 2 * y2 + 1>>, color))

fillTriangle(d, x0, y0, x1, y1, x2, y2, color) ==
  Append(d, CanvasCall("fill path", <<x0, y0, x1, y1, x2, y2>>, color))

drawRoundRect(d, x, y, w, h, r, color) ==
  Append(d, CanvasCall("stroke round rect", <<x, y, w, h, r>>, color))

fillRoundRect(d, x, y, w, h, r, color) ==
  Append(d, CanvasCall("fill round rect", <<x, y, w, h, r>>, color))

\* clearDisplay(dc, color), width and height being dc.width and dc.height.
clearDisplay(d, width, height, color) == fillRect(d, 0, 0, width, height, color)

----------------------------------------------------------------------------
(* simulator: the constructor and the pixel, shape, bitmap and clearing    *)
(* methods of EinkSimulator.  A colour argument left out is undefined.     *)

\* DEFAULT_CONFIG: the configuration of a simulator constructed with no
\* options.
DEFAULT_CONFIG ==
  [width |-> 296, height |-> 128, foreground |-> "#000000",
   background |-> "#FFFFFF"]

\* A canvas is its 2D context, null when getContext('2d') gives none; the
\* context holds what has been drawn on the canvas.
NewCanvas == [name |-> "new canvas", ctx |-> [drawn |-> <<>>]]
NoContextCanvas == [name |-> "canvas without 2D context", ctx |-> Null]
DrawnCanvas(d) == [name |-> "canvas in use", ctx |-> [drawn |-> d]]

\* The error createDrawingContext throws.
FailedToGetContext ==
  [type |-> "Error", message |-> "Failed to get 2D rendering context"]

\* createDrawingContext(canvas): throws when the canvas has no 2D context;
\* otherwise wraps the canvas's context, with whatever is drawn on it.
createDrawingContext(canvas) ==
  IF canvas.ctx = Null THEN FailedToGetContext
  ELSE [dc |-> canvas.ctx.drawn]

\* config.field ?? deflt, for the options object handed to the constructor:
\* the default stands in when the key is missing and when its value is
\* undefined or null.  A value that is present is held as [value |-> v].
Option(options, field, deflt) ==
  IF field \in DOMAIN options /\ options[field] \notin {Null, Undefined}
  THEN options[field].value
  ELSE deflt

\* new EinkSimulator(canvas, options): the fields of the new object, or the
\* error createDrawingContext throws.  The constructor sizes the canvas
\* before it asks for the context.
EinkSimulator_constructor(canvas, options) ==
  LET completed ==
        [width |-> Option(options, "width", DEFAULT_CONFIG.width),
         height |-> Option(options, "height", DEFAULT_CONFIG.height),
         foreground |-> Option(options, "foreground", DEFAULT_CONFIG.foreground),
         background |-> Option(options, "background", DEFAULT_CONFIG.background)]
      context == createDrawingContext(canvas)
  IN  IF context = FailedToGetContext THEN FailedToGetContext
      ELSE [dc |-> context.dc, currentFont |-> Null,
            textColor |-> completed.foreground, config |-> completed]

\* The options the simulators are constructed with: keys left out, keys
\* with a value, and keys whose value is undefined or null.
ConfigArgs ==
  { [width |-> [value |-> 200]],
    [width |-> Undefined],
    [foreground |-> Null],
    [height |-> Undefined, background |-> Undefined,
     width |-> [value |-> 200]],
    [foreground |-> [value |-> "#0000FF"],
     background |-> [value |-> "#FFFF00"], height |-> [value |-> 64]] }

EinkSimulator_clear(this) ==
  clearDisplay(this.dc, this.config.width, this.config.height,
               this.config.background)

EinkSimulator_fill(this, color) ==
  clearDisplay(this.dc, this.config.width, this.config.height, color)

EinkSimulator_drawPixel(this, x, y, color) ==
  drawPixel(this.dc, x, y,
    CoalesceColor(color, this.config.foreground))

EinkSimulator_drawLine(this, x0, y0, x1, y1, color) ==
  drawLine(this.dc, x0, y0, x1, y1,
    CoalesceColor(color, this.config.foreground))

EinkSimulator_drawHLine(this, x, y, w, color) ==
  drawHLine(this.dc, x, y, w,
    CoalesceColor(color, this.config.foreground))

EinkSimulator_drawVLine(this, x, y, h, color) ==
  drawVLine(this.dc, x, y, h,
    CoalesceColor(color, this.config.foreground))

EinkSimulator_drawRect(this, x, y, w, h, color) ==
  drawRect(this.dc, x, y, w, h,
    CoalesceColor(color, this.config.foreground))

EinkSimulator_fillRect(this, x, y, w, h, color) ==
  fillRect(this.dc, x, y, w, h,
    CoalesceColor(color, this.config.foreground))

EinkSimulator_drawRoundRect(this, x, y, w, h, r, color) ==
  drawRoundRect(this.dc, x, y, w, h, r,
    CoalesceColor(color, this.config.foreground))

EinkSimulator_fillRoundRect(this, x, y, w, h, r, color) ==
  fillRoundRect(this.dc, x, y, w, h, r,
    CoalesceColor(color, this.config.foreground))

EinkSimulator_drawCircle(this, x, y, r, color) ==
  drawCircle(this.dc, x, y, r,
    CoalesceColor(color, this.config.foreground))

EinkSimulator_fillCircle(this, x, y, r, color) ==
  fillCircle(this.dc, x, y, r,
    CoalesceColor(color, this.config.foreground))

EinkSimulator_drawTriangle(this, x0, y0, x1, y1, x2, y2, color) ==
  drawTriangle(this.dc, x0, y0, x1, y1, x2, y2,
    CoalesceColor(color, this.config.foreground))

EinkSimulator_fillTriangle(this, x0, y0, x1, y1, x2, y2, color) ==
  fillTriangle(this.dc, x0, y0, x1, y1, x2, y2,
    CoalesceColor(color, this.config.foreground))

\* Variant: a bitmap drawn without a colour argument takes the text colour.
EinkSimulator_drawXBitmap_UsesTextColor(this, x, y, bitmap, w, h, color) ==
  drawXBitmap(this.dc, x, y, bitmap, w, h,
              CoalesceColor(color, this.textColor))

EinkSimulator_drawXBitmap(this, x, y, bitmap, w, h, color) ==
  drawXBitmap(this.dc, x, y, bitmap, w, h,
              CoalesceColor(color, this.config.foreground))

EinkSimulator_drawXBitmapScaled(this, x, y, bitmap, srcW, srcH, destW, destH, color) ==
  drawXBitmapScaled(this.dc, x, y, bitmap, srcW, srcH, destW, destH,
                    CoalesceColor(color, this.config.foreground))

----------------------------------------------------------------------------
(* extract-fonts: extractFont.  A header file is given by what the three   *)
(* regular expressions of extractFont find in it: the comma-separated      *)
(* tokens of the Bitmaps initialiser, the number tokens of each {...}      *)
(* entry of the Glyphs initialiser, and the name, first, last and yAdvance *)
(* of the GFXfont initialiser; null where an expression does not match.    *)
(* The entries of a Glyphs initialiser are what /\{[^}]+\}/g finds in it.   *)

\* The value of a string of digits in the given radix, as parseInt reads it.
RECURSIVE ParseDigits(_, _)
ParseDigits(digits, radix) ==
  IF digits = <<>> THEN 0
  ELSE ParseDigits(SubSeq(digits, 1, Len(digits) - 1), radix) * radix
         + digits[Len(digits)]

\* parseInt(s) of a token matched by /-?\d+/.
ParseInt(token) ==
  IF token.neg THEN 0 - ParseDigits(token.digits, 10)
  ELSE ParseDigits(token.digits, 10)

\* The decimal token that is written for an integer of at most two digits.
Token(n) ==
  LET a == IF n < 0 THEN 0 - n ELSE n
  IN  [neg |-> n < 0,
       digits |-> IF a < 10 THEN <<a>> ELSE <<a \div 10, a % 10>>]

MaxGlyphLines == 2

\* Entries of a Glyphs initialiser: six numbers, six numbers and a seventh,
\* and an entry of two numbers only.
GlyphLines ==
  { <<Token(0), Token(5), Token(3), Token(4), Token(0), Token(-3)>>,
    <<Token(1), Token(3), Token(2), Token(10), Token(-1), Token(1),
      Token(7)>>,
    <<Token(0), Token(8)>> }

RECURSIVE GlyphArrays(_)
GlyphArrays(n) ==
  IF n = 0 THEN {<<>>}
  ELSE LET shorter == GlyphArrays(n - 1)
       IN  shorter \cup {Append(a, l) : a \in {b \in shorter : Len(b) = n - 1},
                                        l \in GlyphLines}

\* The GFXfont initialisers: first and last as their hexadecimal digits,
\* yAdvance as its decimal digits.
FontStructs ==
  { [name |-> "Font9pt7b", first |-> <<2, 0>>, last |-> <<2, 1>>,
     yAdvance |-> <<2, 2>>],
    [name |-> "Font9pt7b", first |-> <<2, 0>>, last |-> <<2, 0>>,
     yAdvance |-> <<8>>],
    [name |-> "Digits", first |-> <<2, 1>>, last |-> <<2, 2>>,
     yAdvance |-> <<8>>] }

\* The tokens of a Bitmaps initialiser, each the hexadecimal digits after
\* 0x; <<>> stands for a token that is not of the form 0x[0-9A-Fa-f]+ (the
\* empty token after a trailing comma).
BitmapTokens ==
  { << <<8, 0>>, <<10, 5>>, <<>> >>, << <<5, 11>>, <<3, 12>>, <<15, 15>> >> }

NotFound == [type |-> "not found"]
TypeError == [type |-> "TypeError"]

Headers ==
  {NotFound} \cup
  [bitmap : {Null} \cup {[tokens |-> t] : t \in BitmapTokens},
   glyphs : {Null} \cup {[lines |-> a] : a \in GlyphArrays(MaxGlyphLines)},
   font : {Null} \cup FontStructs]

\* bitmapMatch[1].split(',')...filter(...).map(s => parseInt(s, 16)).
RECURSIVE bitmapData(_)
bitmapData(tokens) ==
  IF tokens = <<>> THEN <<>>
  ELSE IF Head(tokens) = <<>> THEN bitmapData(Tail(tokens))
       ELSE <<ParseDigits(Head(tokens), 16)>> \o bitmapData(Tail(tokens))

\* The glyphs object after glyphLines.forEach: an entry at 0x20 + index for
\* every line of six values or more.
ParsedGlyphs(glyphLines) ==
  [charCode \in {32 + index : index \in
                   {i \in 0..(Len(glyphLines) - 1) :
                      Len(glyphLines[i + 1]) >= 6}} |->
     LET values == glyphLines[charCode - 32 + 1]
     IN  Glyph(ParseInt(values[1]), ParseInt(values[2]), ParseInt(values[3]),
               ParseInt(values[4]), ParseInt(values[5]),
               ParseInt(values[6]))]

\* extractFont(fontName, fontsDir, customFontsDir) on the header found for
\* fontName: the font object, null, or the TypeError of glyphLines.forEach
\* when the Glyphs initialiser holds no {...} entry.
extractFont(fontName, header) ==
  IF header = NotFound THEN Null
  ELSE IF header.bitmap = Null THEN Null
  ELSE IF header.glyphs = Null THEN Null
  ELSE IF header.glyphs.lines = <<>> THEN TypeError
  ELSE [name |-> IF header.font = Null THEN fontName ELSE header.font.name,
        bitmap |-> bitmapData(header.bitmap.tokens),
        glyphs |-> ParsedGlyphs(header.glyphs.lines),
        first |-> IF header.font = Null THEN 32
                  ELSE ParseDigits(header.font.first, 16),
        last |-> IF header.font = Null THEN 126
                 ELSE ParseDigits(header.font.last, 16),
        yAdvance |-> IF header.font = Null THEN 56
                     ELSE ParseDigits(header.font.yAdvance, 10)]

----------------------------------------------------------------------------
(* The state machine: createDrawingContext gives a fresh drawing context,  *)
(* and one action per exported function applies that function to it with   *)
(* arguments drawn from the input sets.                                    *)

NoBounds == [w |-> 0, h |-> 0, yMin |-> 0, yMax |-> 0]

Init ==
  /\ call = [op |-> "none"]
  /\ dc = <<>>
  /\ ret = 0
  /\ bounds = NoBounds
  /\ cursorX = 0
  /\ startX = 0
  /\ currentFont = Null
  /\ textColor = DEFAULT_CONFIG.foreground
  /\ config = DEFAULT_CONFIG
  /\ result = Undefined

\* No function has been applied to the drawing context yet.
Fresh == call.op = "none"

\* The simulator has drawn or measured nothing yet: only its setters, if
\* anything, have been called.
SimReady ==
  /\ call.op \in {"none", "new EinkSimulator", "setFont", "setTextColor"}
  /\ result # FailedToGetContext

\* The simulator's state as its methods see it.
This ==
  [dc |-> dc, currentFont |-> currentFont, textColor |-> textColor,
   config |-> config]

\* createDrawingContext(canvas), on a new canvas, on the canvas in use and
\* on a canvas without a 2D context.  It returns a wrapper of the canvas's
\* context: nothing is drawn on a new canvas, and the canvas in use holds
\* what was drawn on it.  When the call throws no context is returned and
\* the canvas in use stays as it is.  No simulator is created or changed.
CreateDrawingContext ==
  /\ ~Fresh
  /\ ret' = 0
  /\ bounds' = NoBounds
  /\ cursorX' = 0
  /\ startX' = 0
  /\ UNCHANGED <<currentFont, textColor, config>>
  /\ \E canvas \in {NewCanvas, DrawnCanvas(dc), NoContextCanvas} :
    LET context == createDrawingContext(canvas)
    IN  IF context = FailedToGetContext
        THEN /\ call' = [op |-> "createDrawingContext"]
             /\ result' = context
             /\ dc' = dc
        ELSE /\ call' = IF canvas = NewCanvas THEN [op |-> "none"]
                        ELSE [op |-> "createDrawingContext"]
             /\ dc' = context.dc
             /\ result' = Undefined

DrawGlyph ==
  /\ Fresh
  /\ startX' = 0
  /\ UNCHANGED <<currentFont, textColor, config>>
  /\ result' = Undefined
  /\ \E x \in Xs, y \in Ys, charCode \in CharCodes, font \in Fonts,
        color \in Colors :
       LET r == drawGlyph(dc, x, y, charCode, font, color)
       IN  /\ call' = [op |-> "drawGlyph", x |-> x, y |-> y,
                       charCode |-> charCode, font |-> font, color |-> color]
           /\ dc' = r.dc
           /\ ret' = r.ret
           /\ bounds' = NoBounds
           /\ cursorX' = 0

DrawText ==
  /\ Fresh
  /\ startX' = 0
  /\ UNCHANGED <<currentFont, textColor, config>>
  /\ result' = Undefined
  /\ \E text \in Texts, x \in Xs, y \in Ys, font \in Fonts,
        color \in TextColors :
    LET r == drawText(dc, text, x, y, font, color)
    IN  /\ call' = [op |-> "drawText", text |-> text, x |-> x, y |-> y,
                    font |-> font, color |-> color]
        /\ dc' = r.dc
        /\ cursorX' = r.cursorX
        /\ ret' = 0
        /\ bounds' = NoBounds

GetTextWidth ==
  /\ Fresh
  /\ startX' = 0
  /\ UNCHANGED <<currentFont, textColor, config>>
  /\ result' = Undefined
  /\ \E text \in Texts, font \in Fonts :
    /\ call' = [op |-> "getTextWidth", text |-> text, font |-> font]
    /\ ret' = getTextWidth(text, font)
    /\ dc' = dc
    /\ bounds' = NoBounds
    /\ cursorX' = 0

GetTextBounds ==
  /\ Fresh
  /\ startX' = 0
  /\ UNCHANGED <<currentFont, textColor, config>>
  /\ result' = Undefined
  /\ \E text \in Texts, font \in Fonts :
    /\ call' = [op |-> "getTextBounds", text |-> text, font |-> font]
    /\ bounds' = getTextBounds(text, font)
    /\ dc' = dc
    /\ ret' = 0
    /\ cursorX' = 0

DrawXBitmap ==
  /\ Fresh
  /\ startX' = 0
  /\ UNCHANGED <<currentFont, textColor, config>>
  /\ result' = Undefined
  /\ \E x \in Xs, y \in Ys, bitmap \in XBitmaps, w \in XbmWidths,
     h \in XbmHeights, color \in Colors :
    /\ call' = [op |-> "drawXBitmap", x |-> x, y |-> y, bitmap |-> bitmap,
                w |-> w, h |-> h, color |-> color]
    /\ dc' = drawXBitmap(dc, x, y, bitmap, w, h, color)
    /\ ret' = 0
    /\ bounds' = NoBounds
    /\ cursorX' = 0

DrawBuiltinChar ==
  /\ Fresh
  /\ startX' = 0
  /\ UNCHANGED <<currentFont, textColor, config>>
  /\ result' = Undefined
  /\ \E x \in Xs, y \in Ys, char \in BuiltinChars, color \in Colors :
    /\ call' = [op |-> "drawBuiltinChar", x |-> x, y |-> y, char |-> char,
                color |-> color]
    /\ dc' = drawBuiltinChar(dc, x, y, char, color)
    /\ ret' = 0
    /\ bounds' = NoBounds
    /\ cursorX' = 0

DrawBuiltinText ==
  /\ Fresh
  /\ startX' = 0
  /\ UNCHANGED <<currentFont, textColor, config>>
  /\ result' = Undefined
  /\ \E text \in BuiltinTexts, x \in Xs, y \in Ys, color \in Colors :
    LET r == drawBuiltinText(dc, text, x, y, color)
    IN  /\ call' = [op |-> "drawBuiltinText", text |-> text, x |-> x,
                    y |-> y, color |-> color]
        /\ dc' = r.dc
        /\ cursorX' = r.cursorX
        /\ ret' = 0
        /\ bounds' = NoBounds

GetBuiltinTextWidth ==
  /\ Fresh
  /\ startX' = 0
  /\ UNCHANGED <<currentFont, textColor, config>>
  /\ result' = Undefined
  /\ \E text \in BuiltinTexts :
    /\ call' = [op |-> "getBuiltinTextWidth", text |-> text]
    /\ ret' = getBuiltinTextWidth(text)
    /\ dc' = dc
    /\ bounds' = NoBounds
    /\ cursorX' = 0

DrawXBitmapScaled ==
  /\ Fresh
  /\ startX' = 0
  /\ UNCHANGED <<currentFont, textColor, config>>
  /\ result' = Undefined
  /\ \E x \in Xs, y \in Ys, bitmap \in ScaledBitmaps, sw \in ScaleWidths,
        sh \in ScaleHeights, color \in Colors :
    /\ call' = [op |-> "drawXBitmapScaled", x |-> x, y |-> y,
                bitmap |-> bitmap, srcW |-> sw[1], srcH |-> sh[1],
                destW |-> sw[2], destH |-> sh[2], color |-> color]
    /\ dc' = drawXBitmapScaled(dc, x, y, bitmap, sw[1], sh[1], sw[2], sh[2],
                               color)
    /\ ret' = 0
    /\ bounds' = NoBounds
    /\ cursorX' = 0

ExtractFont ==
  /\ Fresh
  /\ startX' = 0
  /\ UNCHANGED <<currentFont, textColor, config>>
  /\ \E header \in Headers :
    /\ call' = [op |-> "extractFont", fontName |-> "FreeSans9pt7b",
                header |-> header]
    /\ result' = extractFont("FreeSans9pt7b", header)
    /\ dc' = dc
    /\ ret' = 0
    /\ bounds' = NoBounds
    /\ cursorX' = 0

\* The fonts and codes hasChar and getGlyph are asked about: fonts written
\* by hand and the fonts extractFont returns for the headers above.
ExtractedFonts ==
  {extractFont("FreeSans9pt7b", header) : header \in Headers}
    \ {Null, TypeError}
QueryFonts == AlignedFonts \cup ExtractedFonts
QueryCodes == {32, 33, 34, 65, 66}

HasChar ==
  /\ Fresh
  /\ startX' = 0
  /\ UNCHANGED <<currentFont, textColor, config>>
  /\ \E font \in QueryFonts, charCode \in QueryCodes :
    /\ call' = [op |-> "hasChar", font |-> font, charCode |-> charCode]
    /\ result' = [type |-> "boolean", value |-> hasChar(font, charCode)]
    /\ dc' = dc
    /\ ret' = 0
    /\ bounds' = NoBounds
    /\ cursorX' = 0

GetGlyph ==
  /\ Fresh
  /\ startX' = 0
  /\ UNCHANGED <<currentFont, textColor, config>>
  /\ \E font \in QueryFonts, charCode \in QueryCodes :
    /\ call' = [op |-> "getGlyph", font |-> font, charCode |-> charCode]
    /\ result' = getGlyph(font, charCode)
    /\ dc' = dc
    /\ ret' = 0
    /\ bounds' = NoBounds
    /\ cursorX' = 0

DrawTextCentered ==
  /\ Fresh
  /\ UNCHANGED <<currentFont, textColor, config>>
  /\ result' = Undefined
  /\ \E text \in Texts, x \in Xs, width \in Widths, font \in AlignedFonts :
    LET r == drawTextCentered(dc, text, x, 10, width, font, Foreground)
    IN  /\ call' = [op |-> "drawTextCentered", text |-> text, x |-> x,
                    y |-> 10, width |-> width, font |-> font,
                    color |-> Foreground]
        /\ dc' = r.dc
        /\ cursorX' = r.cursorX
        /\ startX' = r.startX
        /\ ret' = 0
        /\ bounds' = NoBounds

DrawTextRightAligned ==
  /\ Fresh
  /\ UNCHANGED <<currentFont, textColor, config>>
  /\ result' = Undefined
  /\ \E text \in Texts, rightX \in RightXs, font \in AlignedFonts :
    LET r == drawTextRightAligned(dc, text, rightX, 10, font, Foreground)
    IN  /\ call' = [op |-> "drawTextRightAligned", text |-> text,
                    rightX |-> rightX, y |-> 10, font |-> font,
                    color |-> Foreground]
        /\ dc' = r.dc
        /\ cursorX' = r.cursorX
        /\ startX' = r.startX
        /\ ret' = 0
        /\ bounds' = NoBounds

SetFont ==
  /\ SimReady
  /\ \E font \in {Null} \cup SimFonts :
    /\ call' = [op |-> "setFont", font |-> font]
    /\ currentFont' = font
  /\ UNCHANGED <<dc, ret, bounds, cursorX, startX, textColor, config, result>>

SetTextColor ==
  /\ SimReady
  /\ \E color \in Colors :
    /\ call' = [op |-> "setTextColor", color |-> color]
    /\ textColor' = color
  /\ UNCHANGED <<dc, ret, bounds, cursorX, startX, currentFont, config,
               result>>

EinkSimulatorDrawText ==
  /\ SimReady
  /\ UNCHANGED <<currentFont, textColor, config>>
  /\ result' = Undefined
  /\ \E text \in Texts, x \in Xs, font \in FontArgs, color \in ColorArgs :
    LET r == EinkSimulator_drawText(This, text, x, 10, font, color)
    IN  /\ call' = [op |-> "EinkSimulator.drawText", text |-> text, x |-> x,
                    y |-> 10, font |-> font, color |-> color]
        /\ dc' = r.dc
        /\ cursorX' = r.cursorX
        /\ startX' = 0
        /\ ret' = 0
        /\ bounds' = NoBounds

EinkSimulatorDrawTextCentered ==
  /\ SimReady
  /\ UNCHANGED <<currentFont, textColor, config>>
  /\ result' = Undefined
  /\ \E text \in Texts, width \in Widths, font \in FontArgs,
        color \in ColorArgs :
    LET r == EinkSimulator_drawTextCentered(This, text, 3, 10, width, font,
                                            color)
    IN  /\ call' = [op |-> "EinkSimulator.drawTextCentered", text |-> text,
                    x |-> 3, y |-> 10, width |-> width, font |-> font,
                    color |-> color]
        /\ dc' = r.dc
        /\ cursorX' = r.cursorX
        /\ startX' = r.startX
        /\ ret' = 0
        /\ bounds' = NoBounds

EinkSimulatorDrawTextRightAligned ==
  /\ SimReady
  /\ UNCHANGED <<currentFont, textColor, config>>
  /\ result' = Undefined
  /\ \E text \in Texts, font \in FontArgs, color \in ColorArgs :
    LET r == EinkSimulator_drawTextRightAligned(This, text, 20, 10, font,
                                                color)
    IN  /\ call' = [op |-> "EinkSimulator.drawTextRightAligned",
                    text |-> text, rightX |-> 20, y |-> 10,
                    font |-> font, color |-> color]
        /\ dc' = r.dc
        /\ cursorX' = r.cursorX
        /\ startX' = r.startX
        /\ ret' = 0
        /\ bounds' = NoBounds

EinkSimulatorGetTextWidth ==
  /\ SimReady
  /\ UNCHANGED <<currentFont, textColor, config>>
  /\ result' = Undefined
  /\ \E text \in Texts, font \in FontArgs :
    /\ call' = [op |-> "EinkSimulator.getTextWidth", text |-> text,
                font |-> font]
    /\ ret' = EinkSimulator_getTextWidth(This, text, font)
    /\ dc' = dc
    /\ bounds' = NoBounds
    /\ cursorX' = 0
    /\ startX' = 0

EinkSimulatorGetTextBounds ==
  /\ SimReady
  /\ UNCHANGED <<currentFont, textColor, config>>
  /\ result' = Undefined
  /\ \E text \in Texts, font \in FontArgs :
    /\ call' = [op |-> "EinkSimulator.getTextBounds", text |-> text,
                font |-> font]
    /\ bounds' = EinkSimulator_getTextBounds(This, text, font)
    /\ dc' = dc
    /\ ret' = 0
    /\ cursorX' = 0
    /\ startX' = 0

\* new EinkSimulator(canvas, options) on a new canvas and on a canvas
\* without a 2D context, where the constructor throws and there is no new
\* object.
NewEinkSimulator ==
  /\ Fresh
  /\ \E canvas \in {NewCanvas, NoContextCanvas}, options \in ConfigArgs :
    LET new == EinkSimulator_constructor(canvas, options)
    IN  /\ call' = [op |-> "new EinkSimulator", config |-> options]
        /\ IF new = FailedToGetContext
           THEN /\ result' = new
                /\ UNCHANGED <<dc, currentFont, textColor, config>>
           ELSE /\ dc' = new.dc
                /\ currentFont' = new.currentFont
                /\ textColor' = new.textColor
                /\ config' = new.config
                /\ result' = result
  /\ UNCHANGED <<ret, bounds, cursorX, startX>>

EinkSimulatorClear ==
  /\ SimReady
  /\ UNCHANGED <<currentFont, textColor, config>>
  /\ result' = Undefined
  /\ call' = [op |-> "EinkSimulator.clear"]
  /\ dc' = EinkSimulator_clear(This)
  /\ ret' = 0
  /\ bounds' = NoBounds
  /\ cursorX' = 0
  /\ startX' = 0

EinkSimulatorFill ==
  /\ SimReady
  /\ UNCHANGED <<currentFont, textColor, config>>
  /\ result' = Undefined
  /\ \E color \in Colors :
    /\ call' = [op |-> "EinkSimulator.fill", color |-> color]
    /\ dc' = EinkSimulator_fill(This, color)
    /\ ret' = 0
    /\ bounds' = NoBounds
    /\ cursorX' = 0
    /\ startX' = 0

EinkSimulatorDrawPixel ==
  /\ SimReady
  /\ UNCHANGED <<currentFont, textColor, config>>
  /\ result' = Undefined
  /\ \E color \in ColorArgs :
    /\ call' = [op |-> "EinkSimulator.drawPixel", color |-> color,
                x |-> 2, y |-> 3]
    /\ dc' = EinkSimulator_drawPixel(This, 2, 3, color)
    /\ ret' = 0
    /\ bounds' = NoBounds
    /\ cursorX' = 0
    /\ startX' = 0

EinkSimulatorDrawLine ==
  /\ SimReady
  /\ UNCHANGED <<currentFont, textColor, config>>
  /\ result' = Undefined
  /\ \E color \in ColorArgs :
    /\ call' = [op |-> "EinkSimulator.drawLine", color |-> color,
                x0 |-> 0, y0 |-> 0, x1 |-> 5, y1 |-> 3]
    /\ dc' = EinkSimulator_drawLine(This, 0, 0, 5, 3, color)
    /\ ret' = 0
    /\ bounds' = NoBounds
    /\ cursorX' = 0
    /\ startX' = 0

EinkSimulatorDrawHLine ==
  /\ SimReady
  /\ UNCHANGED <<currentFont, textColor, config>>
  /\ result' = Undefined
  /\ \E color \in ColorArgs :
    /\ call' = [op |-> "EinkSimulator.drawHLine", color |-> color,
                x |-> 1, y |-> 2, w |-> 6]
    /\ dc' = EinkSimulator_drawHLine(This, 1, 2, 6, color)
    /\ ret' = 0
    /\ bounds' = NoBounds
    /\ cursorX' = 0
    /\ startX' = 0

EinkSimulatorDrawVLine ==
  /\ SimReady
  /\ UNCHANGED <<currentFont, textColor, config>>
  /\ result' = Undefined
  /\ \E color \in ColorArgs :
    /\ call' = [op |-> "EinkSimulator.drawVLine", color |-> color,
                x |-> 1, y |-> 2, h |-> 4]
    /\ dc' = EinkSimulator_drawVLine(This, 1, 2, 4, color)
    /\ ret' = 0
    /\ bounds' = NoBounds
    /\ cursorX' = 0
    /\ startX' = 0

EinkSimulatorDrawRect ==
  /\ SimReady
  /\ UNCHANGED <<currentFont, textColor, config>>
  /\ result' = Undefined
  /\ \E color \in ColorArgs :
    /\ call' = [op |-> "EinkSimulator.drawRect", color |-> color,
                x |-> 0, y |-> 0, w |-> 10, h |-> 5]
    /\ dc' = EinkSimulator_drawRect(This, 0, 0, 10, 5, color)
    /\ ret' = 0
    /\ bounds' = NoBounds
    /\ cursorX' = 0
    /\ startX' = 0

EinkSimulatorFillRect ==
  /\ SimReady
  /\ UNCHANGED <<currentFont, textColor, config>>
  /\ result' = Undefined
  /\ \E color \in ColorArgs :
    /\ call' = [op |-> "EinkSimulator.fillRect", color |-> color,
                x |-> 2, y |-> 2, w |-> 4, h |-> 3]
    /\ dc' = EinkSimulator_fillRect(This, 2, 2, 4, 3, color)
    /\ ret' = 0
    /\ bounds' = NoBounds
    /\ cursorX' = 0
    /\ startX' = 0

EinkSimulatorDrawRoundRect ==
  /\ SimReady
  /\ UNCHANGED <<currentFont, textColor, config>>
  /\ result' = Undefined
  /\ \E color \in ColorArgs :
    /\ call' = [op |-> "EinkSimulator.drawRoundRect", color |-> color,
                x |-> 0, y |-> 0, w |-> 10, h |-> 6, r |-> 2]
    /\ dc' = EinkSimulator_drawRoundRect(This, 0, 0, 10, 6, 2, color)
    /\ ret' = 0
    /\ bounds' = NoBounds
    /\ cursorX' = 0
    /\ startX' = 0

EinkSimulatorFillRoundRect ==
  /\ SimReady
  /\ UNCHANGED <<currentFont, textColor, config>>
  /\ result' = Undefined
  /\ \E color \in ColorArgs :
    /\ call' = [op |-> "EinkSimulator.fillRoundRect", color |-> color,
                x |-> 0, y |-> 0, w |-> 10, h |-> 6, r |-> 2]
    /\ dc' = EinkSimulator_fillRoundRect(This, 0, 0, 10, 6, 2, color)
    /\ ret' = 0
    /\ bounds' = NoBounds
    /\ cursorX' = 0
    /\ startX' = 0

EinkSimulatorDrawCircle ==
  /\ SimReady
  /\ UNCHANGED <<currentFont, textColor, config>>
  /\ result' = Undefined
  /\ \E color \in ColorArgs :
    /\ call' = [op |-> "EinkSimulator.drawCircle", color |-> color,
                x |-> 8, y |-> 8, r |-> 4]
    /\ dc' = EinkSimulator_drawCircle(This, 8, 8, 4, color)
    /\ ret' = 0
    /\ bounds' = NoBounds
    /\ cursorX' = 0
    /\ startX' = 0

EinkSimulatorFillCircle ==
  /\ SimReady
  /\ UNCHANGED <<currentFont, textColor, config>>
  /\ result' = Undefined
  /\ \E color \in ColorArgs :
    /\ call' = [op |-> "EinkSimulator.fillCircle", color |-> color,
                x |-> 8, y |-> 8, r |-> 4]
    /\ dc' = EinkSimulator_fillCircle(This, 8, 8, 4, color)
    /\ ret' = 0
    /\ bounds' = NoBounds
    /\ cursorX' = 0
    /\ startX' = 0

EinkSimulatorDrawTriangle ==
  /\ SimReady
  /\ UNCHANGED <<currentFont, textColor, config>>
  /\ result' = Undefined
  /\ \E color \in ColorArgs :
    /\ call' = [op |-> "EinkSimulator.drawTriangle", color |-> color,
                x0 |-> 0, y0 |-> 0, x1 |-> 6, y1 |-> 0, x2 |-> 3, y2 |-> 5]
    /\ dc' = EinkSimulator_drawTriangle(This, 0, 0, 6, 0, 3, 5, color)
    /\ ret' = 0
    /\ bounds' = NoBounds
    /\ cursorX' = 0
    /\ startX' = 0

EinkSimulatorFillTriangle ==
  /\ SimReady
  /\ UNCHANGED <<currentFont, textColor, config>>
  /\ result' = Undefined
  /\ \E color \in ColorArgs :
    /\ call' = [op |-> "EinkSimulator.fillTriangle", color |-> color,
                x0 |-> 0, y0 |-> 0, x1 |-> 6, y1 |-> 0, x2 |-> 3, y2 |-> 5]
    /\ dc' = EinkSimulator_fillTriangle(This, 0, 0, 6, 0, 3, 5, color)
    /\ ret' = 0
    /\ bounds' = NoBounds
    /\ cursorX' = 0
    /\ startX' = 0

EinkSimulatorDrawXBitmap ==
  /\ SimReady
  /\ UNCHANGED <<currentFont, textColor, config>>
  /\ result' = Undefined
  /\ \E bitmap \in {<<165>>, <<1, 128>>}, color \in ColorArgs :
    /\ call' = [op |-> "EinkSimulator.drawXBitmap", x |-> 3, y |-> 10,
                bitmap |-> bitmap, w |-> 8, h |-> Len(bitmap),
                color |-> color]
    /\ dc' = EinkSimulator_drawXBitmap(This, 3, 10, bitmap, 8, Len(bitmap),
                                       color)
    /\ ret' = 0
    /\ bounds' = NoBounds
    /\ cursorX' = 0
    /\ startX' = 0

EinkSimulatorDrawXBitmapScaled ==
  /\ SimReady
  /\ UNCHANGED <<currentFont, textColor, config>>
  /\ result' = Undefined
  /\ \E bitmap \in ScaledBitmaps, sw \in ScaleWidths, sh \in ScaleHeights,
        color \in ColorArgs :
    /\ call' = [op |-> "EinkSimulator.drawXBitmapScaled", x |-> 3, y |-> 10,
                bitmap |-> bitmap, srcW |-> sw[1], srcH |-> sh[1],
                destW |-> sw[2], destH |-> sh[2], color |-> color]
    /\ dc' = EinkSimulator_drawXBitmapScaled(This, 3, 10, bitmap, sw[1],
                                             sh[1], sw[2], sh[2], color)
    /\ ret' = 0
    /\ bounds' = NoBounds
    /\ cursorX' = 0
    /\ startX' = 0

Next ==
  \/ CreateDrawingContext
  \/ DrawGlyph
  \/ DrawText
  \/ GetTextWidth
  \/ GetTextBounds
  \/ DrawXBitmap
  \/ DrawBuiltinChar
  \/ DrawBuiltinText
  \/ GetBuiltinTextWidth
  \/ DrawXBitmapScaled
  \/ ExtractFont
  \/ HasChar
  \/ GetGlyph

Spec == Init /\ [][Next]_vars

\* The aligned draws and the simulator's text methods, on a new context
\* and simulator each.  The simulator draws on the context its constructor
\* made.
SimulatorNext ==
  \/ DrawTextCentered
  \/ DrawTextRightAligned
  \/ SetFont
  \/ SetTextColor
  \/ EinkSimulatorDrawText
  \/ EinkSimulatorDrawTextCentered
  \/ EinkSimulatorDrawTextRightAligned
  \/ EinkSimulatorGetTextWidth
  \/ EinkSimulatorGetTextBounds

SimulatorSpec == Init /\ [][SimulatorNext]_vars

\* The simulator's constructor, setTextColor and every drawing method, on
\* a new simulator each.
ColorNext ==
  \/ DrawXBitmapScaled
  \/ NewEinkSimulator
  \/ SetTextColor
  \/ EinkSimulatorDrawText
  \/ EinkSimulatorDrawTextCentered
  \/ EinkSimulatorDrawTextRightAligned
  \/ EinkSimulatorClear
  \/ EinkSimulatorFill
  \/ EinkSimulatorDrawPixel
  \/ EinkSimulatorDrawLine
  \/ EinkSimulatorDrawHLine
  \/ EinkSimulatorDrawVLine
  \/ EinkSimulatorDrawRect
  \/ EinkSimulatorFillRect
  \/ EinkSimulatorDrawRoundRect
  \/ EinkSimulatorFillRoundRect
  \/ EinkSimulatorDrawCircle
  \/ EinkSimulatorFillCircle
  \/ EinkSimulatorDrawTriangle
  \/ EinkSimulatorFillTriangle
  \/ EinkSimulatorDrawXBitmap
  \/ EinkSimulatorDrawXBitmapScaled

ColorSpec == Init /\ [][ColorNext]_vars

----------------------------------------------------------------------------
(* Vocabulary of the properties.                                           *)

\* Bit k of a byte, by division.
Bit(byte, k) == (byte \div (2 ^ k)) % 2

\* The positions and the colours a sequence of pixel writes touches.
Pixels(d) == {<<d[i].x, d[i].y>> : i \in DOMAIN d}
WriteColors(d) == {d[i].color : i \in DOMAIN d}

\* The character codes of a string, and those of them the font has.
CodesOf(text) == {CharCodeAt0(text[i]) : i \in DOMAIN text}
PresentIn(text, font) == {i \in DOMAIN text : HasGlyph(font, CharCodeAt0(text[i]))}

\* The advance drawGlyph returns for the i-th character of a string.
ReturnedAdvance(text, i, font) ==
  drawGlyph(<<>>, 0, 0, CharCodeAt0(text[i]), font, "#000000").ret

\* The sum of the advances drawGlyph returns for the first n characters.
RECURSIVE SumReturned(_, _, _)
SumReturned(text, n, font) ==
  IF n = 0 THEN 0
  ELSE SumReturned(text, n - 1, font) + ReturnedAdvance(text, n, font)

----------------------------------------------------------------------------
\* C1: for every string and font, getTextWidth(s, f) equals the net cursor
\* displacement of drawText(s, x, y, f): the final cursorX minus the
\* starting x, which is the sum of the values drawGlyph returned.
C1_WidthIsCursorDisplacement ==
  call.op = "drawText" =>
    /\ getTextWidth(call.text, call.font) = cursorX - call.x
    /\ cursorX - call.x = SumReturned(call.text, Len(call.text), call.font)

\* A drawText over a string with an absent character and a present
\* zero-width glyph that moved the cursor.
C1_Witness ==
  /\ call.op = "drawText"
  /\ \E i \in DOMAIN call.text : i \notin PresentIn(call.text, call.font)
  /\ \E i \in PresentIn(call.text, call.font) :
        /\ call.font.glyphs[CharCodeAt0(call.text[i])].width = 0
        /\ call.font.glyphs[CharCodeAt0(call.text[i])].xAdvance # 0
  /\ cursorX # call.x

----------------------------------------------------------------------------
\* The pixels of a glyph under MSB-first decoding of one continuous bit
\* stream: bit i = row * width + col is bit 7 - (i mod 8) of the byte at
\* offset + floor(i / 8).
GlyphPixelSet(x, y, glyph, font) ==
  { <<x + glyph.xOffset + rc[2], y + glyph.yOffset + rc[1]>> :
      rc \in { q \in (0 .. glyph.height - 1) \X (0 .. glyph.width - 1) :
                LET i == q[1] * glyph.width + q[2]
                IN  Bit(ByteAt(font.bitmap, glyph.offset + (i \div 8)),
                        7 - (i % 8)) = 1 } }

\* C2: drawGlyph decodes MSB-first over one continuous bit stream with no
\* per-row padding: for a present glyph of width > 0 the pixels written, all
\* with color, are exactly those whose bit is set; width 8, height 1 over
\* the byte 0x80 writes exactly the pixel at (x + xOffset, y + yOffset).
C2_GlyphMsbFirst ==
  (/\ call.op = "drawGlyph"
   /\ HasGlyph(call.font, call.charCode)
   /\ call.font.glyphs[call.charCode].width > 0) =>
    LET glyph == call.font.glyphs[call.charCode]
    IN  /\ Pixels(dc) = GlyphPixelSet(call.x, call.y, glyph, call.font)
        /\ WriteColors(dc) \subseteq {call.color}
        /\ (/\ glyph.width = 8
            /\ glyph.height = 1
            /\ ByteAt(call.font.bitmap, glyph.offset) = 128) =>
              dc = << [x |-> call.x + glyph.xOffset,
                       y |-> call.y + glyph.yOffset, color |-> call.color] >>

\* drawGlyph drew the 8-by-1 glyph whose byte is 0x80: one pixel written.
C2_Witness ==
  /\ call.op = "drawGlyph"
  /\ HasGlyph(call.font, call.charCode)
  /\ call.font.glyphs[call.charCode].width = 8
  /\ call.font.glyphs[call.charCode].height = 1
  /\ ByteAt(call.font.bitmap, call.font.glyphs[call.charCode].offset) = 128
  /\ Len(dc) = 1

----------------------------------------------------------------------------
\* The pixels of a packed image under LSB-first decoding with byte-aligned
\* rows of stride ceil(w / 8).
XBitmapPixelSet(x, y, bitmap, w, h) ==
  { <<x + rc[2], y + rc[1]>> :
      rc \in { q \in (0 .. h - 1) \X (0 .. w - 1) :
                Bit(ByteAt(bitmap, q[1] * ((w + 7) \div 8) + (q[2] \div 8)),
                    q[2] % 8) = 1 } }

\* C3: drawXBitmap decodes LSB-first with byte-aligned rows: the pixels
\* written, all with color, are exactly those (x + col, y + row) whose bit
\* col mod 8 of bitmap[row * stride + floor(col / 8)] is set; w = 8, h = 1
\* over the byte 0x01 writes exactly the pixel at column 0.
C3_XBitmapLsbFirst ==
  call.op = "drawXBitmap" =>
    /\ Pixels(dc) = XBitmapPixelSet(call.x, call.y, call.bitmap, call.w, call.h)
    /\ WriteColors(dc) \subseteq {call.color}
    /\ (call.w = 8 /\ call.h = 1 /\ call.bitmap = <<1>>) =>
          dc = << [x |-> call.x, y |-> call.y, color |-> call.color] >>

\* drawXBitmap drew the 8-by-1 image of the byte 0x01: one pixel written.
C3_Witness ==
  /\ call.op = "drawXBitmap"
  /\ call.w = 8
  /\ call.h = 1
  /\ call.bitmap = <<1>>
  /\ Len(dc) = 1

----------------------------------------------------------------------------
\* The pixels of a built-in character: column-major, bit row of the column
\* byte (c - 0x20) * 5 + col, rows 0..6 downwards from y.
BuiltinPixelSet(x, y, code) ==
  { <<x + cr[1], y + cr[2]>> :
      cr \in { q \in (0 .. 4) \X (0 .. 6) :
                Bit(BUILTIN_5X7_FONT[(code - 32) * 5 + q[1] + 1], q[2]) = 1 } }

\* C4: drawBuiltinChar decodes the built-in font column-major with a
\* top-left origin: for a code in 0x20..0x7F the pixels written are exactly
\* those (x + col, y + row), col in 0..4, row in 0..6, whose bit row of the
\* table byte (c - 0x20) * 5 + col is set; no pixel of row 7 is written.
C4_BuiltinColumnMajor ==
  (/\ call.op = "drawBuiltinChar"
   /\ CharCodeAt0(call.char) \in 32 .. 127) =>
    /\ Pixels(dc) = BuiltinPixelSet(call.x, call.y, CharCodeAt0(call.char))
    /\ \A i \in DOMAIN dc : dc[i].y <= call.y + 6

\* drawBuiltinChar drew "A": its left stem, table byte 0x7C, gives rows
\* 2..6 of column 0 and leaves rows 0 and 1 blank.
C4_Witness ==
  /\ call.op = "drawBuiltinChar"
  /\ call.char = 65
  /\ <<call.x, call.y + 2>> \in Pixels(dc)
  /\ <<call.x, call.y>> \notin Pixels(dc)

----------------------------------------------------------------------------
\* C5: when the character code has no entry in font.glyphs, drawGlyph
\* returns 0 and writes no pixel; a drawText over characters the font lacks
\* leaves the surface and its cursor unchanged.
C5_AbsentGlyphNoEffect ==
  /\ (call.op = "drawGlyph" /\ ~HasGlyph(call.font, call.charCode)) =>
        (ret = 0 /\ dc = <<>>)
  /\ (call.op = "drawText" /\ PresentIn(call.text, call.font) = {}) =>
        (cursorX = call.x /\ dc = <<>>)

\* drawGlyph was called with a code missing from a font that has a glyph
\* for its first code.
C5_Witness ==
  /\ call.op = "drawGlyph"
  /\ ~HasGlyph(call.font, call.charCode)
  /\ HasGlyph(call.font, call.font.first)
  /\ call.font.glyphs[call.font.first].width > 0
  /\ ret = 0

----------------------------------------------------------------------------
\* C6: whenever the glyph for the code exists, drawGlyph returns exactly
\* glyph.xAdvance, whatever its width, height and bitmap; when the glyph
\* exists with width 0 it writes no pixel.
C6_PresentGlyphReturnsXAdvance ==
  (call.op = "drawGlyph" /\ HasGlyph(call.font, call.charCode)) =>
    LET glyph == call.font.glyphs[call.charCode]
    IN  /\ ret = glyph.xAdvance
        /\ glyph.width = 0 => dc = <<>>

\* drawGlyph drew pixels of a glyph whose xAdvance is less than its width.
C6_Witness ==
  /\ call.op = "drawGlyph"
  /\ HasGlyph(call.font, call.charCode)
  /\ call.font.glyphs[call.charCode].xAdvance
       < call.font.glyphs[call.charCode].width
  /\ dc # <<>>
  /\ ret = call.font.glyphs[call.charCode].xAdvance

----------------------------------------------------------------------------
\* The writes of drawGlyph for each of the first n characters alone, in
\* string order, the k-th at (x + the advances returned for those before
\* it, y).
RECURSIVE GlyphWritesInOrder(_, _, _, _, _, _)
GlyphWritesInOrder(text, n, x, y, font, color) ==
  IF n = 0 THEN <<>>
  ELSE GlyphWritesInOrder(text, n - 1, x, y, font, color)
       \o drawGlyph(<<>>, x + SumReturned(text, n - 1, font), y,
                    CharCodeAt0(text[n]), font, color).dc

\* C7: drawText draws the characters in string order, each an independent
\* lookup: the k-th by drawGlyph at origin (x + sum of the advances returned
\* for characters 0..k-1, y), the same baseline y for every character; the
\* pixels written are the union of the per-character pixel sets.
C7_DrawTextPerCharacter ==
  call.op = "drawText" =>
    /\ dc = GlyphWritesInOrder(call.text, Len(call.text), call.x, call.y,
                               call.font, call.color)
    /\ Pixels(dc) =
         UNION { Pixels(drawGlyph(<<>>,
                          call.x + SumReturned(call.text, k - 1, call.font),
                          call.y, CharCodeAt0(call.text[k]), call.font,
                          call.color).dc) : k \in DOMAIN call.text }

\* drawText from x # 0 drew two different glyphs, the second displaced by
\* the non-zero advance of the first.
C7_Witness ==
  /\ call.op = "drawText"
  /\ call.x # 0
  /\ Len(call.text) = 2
  /\ call.text[1] # call.text[2]
  /\ PresentIn(call.text, call.font) = {1, 2}
  /\ ReturnedAdvance(call.text, 1, call.font) # 0
  /\ drawGlyph(<<>>, call.x, call.y, CharCodeAt0(call.text[1]), call.font,
               call.color).dc # <<>>
  /\ Len(dc) > Len(drawGlyph(<<>>, call.x, call.y, CharCodeAt0(call.text[1]),
                             call.font, call.color).dc)

----------------------------------------------------------------------------
\* The least and the greatest element of a non-empty set of integers.
SetMin(S) == CHOOSE m \in S : \A n \in S : m <= n
SetMax(S) == CHOOSE m \in S : \A n \in S : m >= n

\* The glyphs of the characters of a string that the font has.
PresentGlyphs(text, font) ==
  {font.glyphs[CharCodeAt0(text[i])] : i \in PresentIn(text, font)}

\* C8: for a string with at least one character present in the font,
\* getTextBounds returns yMin = the minimum of glyph.yOffset and yMax = the
\* maximum of glyph.yOffset + glyph.height over the present glyphs (from the
\* first present glyph, not from 0), and h = yMax - yMin; absent characters
\* do not affect them.
C8_BoundsAreExtremaOfPresentGlyphs ==
  (/\ call.op = "getTextBounds"
   /\ PresentIn(call.text, call.font) # {}) =>
    LET G == PresentGlyphs(call.text, call.font)
    IN  /\ bounds.yMin = SetMin({g.yOffset : g \in G})
        /\ bounds.yMax = SetMax({g.yOffset + g.height : g \in G})
        /\ bounds.h = bounds.yMax - bounds.yMin

\* getTextBounds of a string with an absent character whose present glyph
\* lies wholly above the baseline: yMax is negative.
C8_Witness ==
  /\ call.op = "getTextBounds"
  /\ PresentIn(call.text, call.font) # {}
  /\ PresentIn(call.text, call.font) # DOMAIN call.text
  /\ bounds.yMax < 0
  /\ bounds.h > 0

----------------------------------------------------------------------------
\* C9: for the empty string, and for any string none of whose characters is
\* present in the font, getTextBounds returns {w: 0, h: 0, yMin: 0, yMax: 0}.
C9_NoGlyphZeroBounds ==
  (/\ call.op = "getTextBounds"
   /\ PresentIn(call.text, call.font) = {}) =>
    bounds = [w |-> 0, h |-> 0, yMin |-> 0, yMax |-> 0]

\* getTextBounds of a non-empty string, none of whose characters is in a
\* font that does have glyphs.
C9_Witness ==
  /\ call.op = "getTextBounds"
  /\ call.text # <<>>
  /\ PresentIn(call.text, call.font) = {}
  /\ DOMAIN call.font.glyphs # {}
  /\ bounds.h = 0

----------------------------------------------------------------------------
\* C10: for every string s and font f, getTextBounds(s, f).w equals
\* getTextWidth(s, f).
C10_BoundsWidthIsTextWidth ==
  call.op = "getTextBounds" =>
    bounds.w = getTextWidth(call.text, call.font)

\* getTextBounds of a string with an absent character and a zero-width
\* glyph that advances: a non-zero width.
C10_Witness ==
  /\ call.op = "getTextBounds"
  /\ PresentIn(call.text, call.font) # DOMAIN call.text
  /\ \E g \in PresentGlyphs(call.text, call.font) :
        g.width = 0 /\ g.xAdvance # 0
  /\ bounds.w # 0


\* C11: for an ASCII string, characters outside the printable range
\* included, getBuiltinTextWidth returns 6 times the string's length, and
\* that is the displacement of drawBuiltinText's cursor over the string.
IsAscii(text) == \A i \in DOMAIN text : text[i] <= 127

C11_BuiltinWidthIsSixPerChar ==
  /\ (call.op = "getBuiltinTextWidth" /\ IsAscii(call.text)) =>
        /\ ret = 6 * Len(call.text)
        /\ \A x \in Xs :
             drawBuiltinText(<<>>, call.text, x, 0, Foreground).cursorX - x = ret
  /\ (call.op = "drawBuiltinText" /\ IsAscii(call.text)) =>
        /\ cursorX - call.x = 6 * Len(call.text)
        /\ cursorX - call.x = getBuiltinTextWidth(call.text)

C11_Witness ==
  /\ call.op = "getBuiltinTextWidth"
  /\ call.text = <<31, 65>>
  /\ ret = 12

----------------------------------------------------------------------------
\* A character the built-in table has no entry for, and the indices of a
\* string's characters that it has one for.
BuiltinUnsupported(char) == CharCodeAt0(char) < 32 \/ CharCodeAt0(char) > 127
BuiltinSupportedIn(text) == {i \in DOMAIN text : ~BuiltinUnsupported(text[i])}

\* C12: the built-in path and the external-font path treat an unsupported
\* character differently.  Built-in: a character whose code is outside
\* 0x20..0x7F writes no pixel but the cursor still advances by 6, so the
\* next character is drawn 6 further right.  External font: a character
\* without a glyph writes no pixel and advances the cursor by 0.  For a
\* string of unsupported characters the built-in width is 6 * length and
\* the external-font width is 0.
C12_UnsupportedCharAdvance ==
  /\ (call.op = "drawBuiltinChar" /\ BuiltinUnsupported(call.char)) =>
        dc = <<>>
  /\ call.op = "drawBuiltinText" =>
        /\ cursorX - call.x = 6 * Len(call.text)
        /\ Pixels(dc) =
             UNION { BuiltinPixelSet(call.x + 6 * (i - 1), call.y,
                                     CharCodeAt0(call.text[i])) :
                       i \in BuiltinSupportedIn(call.text) }
        /\ BuiltinSupportedIn(call.text) = {} =>
             /\ dc = <<>>
             /\ getBuiltinTextWidth(call.text) = 6 * Utf16Length(call.text)
             /\ \A font \in Fonts :
                  PresentIn(call.text, font) = {} =>
                    /\ getTextWidth(call.text, font) = 0
                    /\ drawText(<<>>, call.text, call.x, call.y, font,
                                call.color)
                         = [dc |-> <<>>, cursorX |-> call.x]
  /\ (call.op = "drawText" /\ PresentIn(call.text, call.font) = {}) =>
        /\ dc = <<>>
        /\ cursorX = call.x
  /\ (call.op = "getTextWidth" /\ PresentIn(call.text, call.font) = {}) =>
        ret = 0

C12_Witness ==
  /\ call.op = "drawBuiltinText"
  /\ call.text = <<31, 65>>
  /\ \E i \in DOMAIN dc : dc[i].x >= call.x + 6
  /\ cursorX = call.x + 12
  /\ getTextWidth(<<31, 31>>, CHOOSE f \in Fonts : DOMAIN f.glyphs = {65, 66})
       = 0
  /\ getBuiltinTextWidth(<<31, 31>>) = 12

----------------------------------------------------------------------------
\* C13: at scale factor 1 the scaled decoder equals the unscaled one:
\* drawXBitmapScaled(dc, x, y, bitmap, w, h, w, h, color) with w > 0 and
\* h > 0 writes exactly the same set of pixels, in the same colour, as
\* drawXBitmap(dc, x, y, bitmap, w, h, color).
C13_ScaleOneIsUnscaled ==
  (/\ call.op = "drawXBitmapScaled"
   /\ call.destW = call.srcW /\ call.destH = call.srcH
   /\ call.srcW > 0 /\ call.srcH > 0) =>
    LET unscaled == drawXBitmap(<<>>, call.x, call.y, call.bitmap,
                                call.srcW, call.srcH, call.color)
    IN  /\ Pixels(dc) = Pixels(unscaled)
        /\ WriteColors(dc) = WriteColors(unscaled)

C13_Witness ==
  /\ call.op = "drawXBitmapScaled"
  /\ call.srcW = 8 /\ call.destW = 8
  /\ call.srcH = 2 /\ call.destH = 2
  /\ call.bitmap = <<165, 1, 90, 3>>
  /\ Cardinality(Pixels(dc)) = 5

----------------------------------------------------------------------------
\* The source pixel (col, row) of a packed image of width srcW is set:
\* LSB-first, rows of stride ceil(srcW / 8).
SourcePixelSet(bitmap, srcW, col, row) ==
  Bit(ByteAt(bitmap, row * ((srcW + 7) \div 8) + (col \div 8)), col % 8) = 1

\* C14: drawXBitmapScaled samples nearest-neighbour: for every destination
\* pixel (destCol, destRow) of the destination rectangle, the pixel
\* (x + destCol, y + destRow) is written if and only if the source pixel
\* (floor(destCol * srcW / destW), floor(destRow * srcH / destH)) is set.
C14_NearestNeighbourExact ==
  call.op = "drawXBitmapScaled" =>
    \A destCol \in 0 .. call.destW - 1, destRow \in 0 .. call.destH - 1 :
      (<<call.x + destCol, call.y + destRow>> \in Pixels(dc))
        <=> SourcePixelSet(call.bitmap, call.srcW,
                           (destCol * call.srcW) \div call.destW,
                           (destRow * call.srcH) \div call.destH)

\* The draw of a 30-pixel row at width 22 has written destination column
\* 11, whose source column floor(11 * 30 / 22) = 15 is not set: the code
\* sampled column 14, the floor of the double 11 * (30 / 22).
C14_Witness ==
  /\ call.op = "drawXBitmapScaled"
  /\ call.srcW = 30 /\ call.destW = 22
  /\ call.srcH = 1 /\ call.destH = 1
  /\ call.bitmap = <<255, 127, 0, 128>>
  /\ <<call.x + 11, call.y>> \in Pixels(dc)
  /\ ~SourcePixelSet(call.bitmap, 30, 15, 0)
  /\ SourcePixelSet(call.bitmap, 30, 14, 0)

----------------------------------------------------------------------------
\* The font a simulator text method called with call.font uses, and the
\* width of call.text in it.
EffectiveFont == IF Nullish(call.font) THEN currentFont ELSE call.font
EffectiveTextWidth ==
  IF Nullish(EffectiveFont) THEN getBuiltinTextWidth(call.text)
  ELSE getTextWidth(call.text, EffectiveFont)

\* sx is x + floor(slack / 2), the floor taken toward negative infinity,
\* and the padding right of the text exceeds the padding left of it by 0
\* for an even slack and by 1 for an odd one.
CenteredAt(sx, x, slack) ==
  LET left == sx - x
      right == slack - left
  IN  /\ 2 * left <= slack
      /\ slack < 2 * left + 2
      /\ right - left = (IF slack % 2 = 0 THEN 0 ELSE 1)

\* C15: drawTextCentered starts the text at x + floor((width - textWidth)
\* / 2), rounding toward negative infinity also when the text is wider
\* than the width, so the right padding minus the left padding is 0 for an
\* even width - textWidth and 1 for an odd one.  EinkSimulator's
\* drawTextCentered uses the same start position for an external font and
\* for the built-in font.
C15_CenteredStartFloors ==
  /\ call.op = "drawTextCentered" =>
       /\ CenteredAt(startX, call.x,
                     call.width - getTextWidth(call.text, call.font))
       /\ dc = drawText(<<>>, call.text, startX, call.y, call.font,
                        call.color).dc
  /\ call.op = "EinkSimulator.drawTextCentered" =>
       /\ CenteredAt(startX, call.x, call.width - EffectiveTextWidth)
       /\ Nullish(EffectiveFont) =>
            Pixels(dc) = Pixels(drawBuiltinText(<<>>, call.text, startX,
                                                call.y, Foreground).dc)
       /\ ~Nullish(EffectiveFont) =>
            Pixels(dc) = Pixels(drawText(<<>>, call.text, startX, call.y,
                                         EffectiveFont, Foreground).dc)

C15_Witness ==
  /\ call.op = "drawTextCentered"
  /\ call.width = 0
  /\ getTextWidth(call.text, call.font) = 7
  /\ startX = call.x - 4
  /\ dc # <<>>

\* The built-in branch of the simulator's centered draw, at an odd slack.
C15_WitnessBuiltin ==
  /\ call.op = "EinkSimulator.drawTextCentered"
  /\ Nullish(EffectiveFont)
  /\ call.width = 7
  /\ call.text = <<65>>
  /\ startX = call.x
  /\ dc # <<>>

----------------------------------------------------------------------------
\* The origin drawText gives the k-th character of a string started at sx,
\* the pixels of its glyph there, and the sum of the advances of the
\* characters after it.
GlyphOrigin(text, k, font, sx) == sx + SumReturned(text, k - 1, font)
GlyphPixelsAt(text, k, font, sx, y) ==
  GlyphPixelSet(GlyphOrigin(text, k, font, sx), y,
                font.glyphs[CharCodeAt0(text[k])], font)
AdvanceAfter(text, k, font) ==
  SumReturned(text, Len(text), font) - SumReturned(text, k, font)
NoOverhang(glyph) == glyph.xOffset + glyph.width <= glyph.xAdvance

\* C16 as stated: after drawTextRightAligned(text, rightX, y, font), every
\* pixel drawn for a glyph of the string with xOffset + width <= xAdvance
\* has an x-coordinate of at most rightX - 1, whatever the other glyphs of
\* the string and the signs of their advances.
C16_RightEdgeAnyString ==
  call.op = "drawTextRightAligned" =>
    \A k \in PresentIn(call.text, call.font) :
      NoOverhang(call.font.glyphs[CharCodeAt0(call.text[k])]) =>
        \A p \in GlyphPixelsAt(call.text, k, call.font, startX, call.y) :
          p[1] <= call.rightX - 1

\* C16 as amended: drawTextRightAligned starts the text at rightX minus
\* its width, the pixels drawn are those of the glyphs at their origins,
\* and every pixel of a glyph with xOffset + width <= xAdvance has an
\* x-coordinate of at most rightX - 1 provided the advances of the
\* characters after it sum to at least 0.
C16_RightEdgeNonNegativeTail ==
  call.op = "drawTextRightAligned" =>
    /\ startX = call.rightX - getTextWidth(call.text, call.font)
    /\ Pixels(dc) =
         UNION { GlyphPixelsAt(call.text, k, call.font, startX, call.y) :
                   k \in PresentIn(call.text, call.font) }
    /\ \A k \in PresentIn(call.text, call.font) :
         (/\ NoOverhang(call.font.glyphs[CharCodeAt0(call.text[k])])
          /\ AdvanceAfter(call.text, k, call.font) >= 0) =>
           \A p \in GlyphPixelsAt(call.text, k, call.font, startX, call.y) :
             p[1] <= call.rightX - 1

\* A two-character string whose last glyph, without overhang, reaches
\* column rightX - 1 exactly.
C16_Witness ==
  /\ call.op = "drawTextRightAligned"
  /\ Len(call.text) = 2
  /\ PresentIn(call.text, call.font) = {1, 2}
  /\ NoOverhang(call.font.glyphs[CharCodeAt0(call.text[2])])
  /\ AdvanceAfter(call.text, 1, call.font) > 0
  /\ \E p \in GlyphPixelsAt(call.text, 2, call.font, startX, call.y) :
       p[1] = call.rightX - 1 /\ p \in Pixels(dc)

----------------------------------------------------------------------------
\* The source bit drawXBitmapScaled reads for the destination pixel
\* (destCol, destRow) of the call is set.
SampledBitSet(destCol, destRow) ==
  SourcePixelSet(call.bitmap, call.srcW,
                 MathFloorTimes(destCol, DoubleDivide(call.srcW, call.destW)),
                 MathFloorTimes(destRow, DoubleDivide(call.srcH, call.destH)))

\* The set bits among the w * h bits drawXBitmap addresses.
AddressedSetBits(bitmap, w, h) ==
  {q \in (0 .. w - 1) \X (0 .. h - 1) : SourcePixelSet(bitmap, w, q[1], q[2])}

\* C17: unset bits are transparent.  drawXBitmap and drawXBitmapScaled
\* write a pixel only inside the destination rectangle and only where the
\* source bit read for it is set, always in the given colour, so every
\* other pixel of the surface is left as it was; drawXBitmap issues as
\* many writes as there are set bits among the w * h bits it addresses.
C17_UnsetBitsTransparent ==
  /\ call.op = "drawXBitmap" =>
       /\ \A i \in DOMAIN dc :
            /\ dc[i].x - call.x \in 0 .. call.w - 1
            /\ dc[i].y - call.y \in 0 .. call.h - 1
            /\ SourcePixelSet(call.bitmap, call.w, dc[i].x - call.x,
                              dc[i].y - call.y)
            /\ dc[i].color = call.color
       /\ Len(dc) = Cardinality(AddressedSetBits(call.bitmap, call.w, call.h))
  /\ call.op = "drawXBitmapScaled" =>
       \A i \in DOMAIN dc :
         /\ dc[i].x - call.x \in 0 .. call.destW - 1
         /\ dc[i].y - call.y \in 0 .. call.destH - 1
         /\ SampledBitSet(dc[i].x - call.x, dc[i].y - call.y)
         /\ dc[i].color = call.color

C17_Witness ==
  /\ call.op = "drawXBitmap"
  /\ call.bitmap = <<165, 1, 90, 3>>
  /\ call.w = 9 /\ call.h = 2
  /\ Len(dc) = 10
  /\ <<call.x + 1, call.y>> \notin Pixels(dc)

\* A scaled draw that left destination pixels with an unset source bit
\* untouched.
C17_WitnessScaled ==
  /\ call.op = "drawXBitmapScaled"
  /\ call.srcW = 3 /\ call.destW = 6
  /\ call.srcH = 1 /\ call.destH = 2
  /\ call.bitmap = <<165, 1, 90, 3>>
  /\ Pixels(dc) = {<<call.x + c, call.y + r>> : c \in {0, 1, 4, 5}, r \in {0, 1}}

----------------------------------------------------------------------------
\* What drawing call.text with the built-in font, and with a given external
\* font, at the call's position and in the colour in effect writes.
BuiltinRendering ==
  drawBuiltinText(<<>>, call.text, call.x, call.y,
                  CoalesceColor(call.color, textColor))
FontRendering(font) ==
  drawText(<<>>, call.text, call.x, call.y, font,
           CoalesceColor(call.color, textColor))

\* C18: passing null or undefined as the font parameter of
\* EinkSimulator.drawText selects the built-in 5x7 font in every simulator
\* state, also after setFont(customFont): the text is rendered with the
\* built-in font.
C18_NullFontSelectsBuiltin ==
  (call.op = "EinkSimulator.drawText" /\ Nullish(call.font)) =>
    /\ dc = BuiltinRendering.dc
    /\ cursorX = BuiltinRendering.cursorX

\* After setFont(customFont), drawText("A", x, y, null) has drawn the
\* custom font's glyph and not the built-in one.
C18_Witness ==
  /\ call.op = "EinkSimulator.drawText"
  /\ call.font = Null
  /\ call.text = <<65>>
  /\ currentFont \in SimFonts
  /\ dc = FontRendering(currentFont).dc
  /\ Pixels(dc) # Pixels(BuiltinRendering.dc)

----------------------------------------------------------------------------
\* The text methods of EinkSimulator.
SimTextOps ==
  {"EinkSimulator.drawText", "EinkSimulator.drawTextCentered",
   "EinkSimulator.drawTextRightAligned", "EinkSimulator.getTextWidth",
   "EinkSimulator.getTextBounds"}

\* The width of a string in a font, null standing for the built-in font,
\* and the string drawn in it from sx on top of the writes before.
WidthIn(text, font) ==
  IF font = Null THEN getBuiltinTextWidth(text) ELSE getTextWidth(text, font)
DrawnIn(before, text, sx, y, font, color) ==
  IF font = Null THEN drawBuiltinText(before, text, sx, y, color)
  ELSE drawText(before, text, sx, y, font, color)

\* The results d, cx, r, b of the text method call c, made on a simulator
\* with text colour tc and the writes before on its canvas, are those of
\* the method working with font (null: the built-in font).
UsesFont(c, font, tc, before, d, cx, r, b) ==
  CASE c.op = "EinkSimulator.drawText" ->
         LET e == DrawnIn(before, c.text, c.x, c.y, font,
                          CoalesceColor(c.color, tc))
         IN  d = e.dc /\ cx = e.cursorX
    [] c.op = "EinkSimulator.drawTextCentered" ->
         LET sx == c.x + ((c.width - WidthIn(c.text, font)) \div 2)
             e == DrawnIn(before, c.text, sx, c.y, font,
                          CoalesceColor(c.color, tc))
         IN  d = e.dc /\ cx = e.cursorX
    [] c.op = "EinkSimulator.drawTextRightAligned" ->
         LET e == DrawnIn(before, c.text, c.rightX - WidthIn(c.text, font),
                          c.y, font, CoalesceColor(c.color, tc))
         IN  d = e.dc /\ cx = e.cursorX
    [] c.op = "EinkSimulator.getTextWidth" -> r = WidthIn(c.text, font)
    [] c.op = "EinkSimulator.getTextBounds" ->
         b = IF font = Null
             THEN [w |-> getBuiltinTextWidth(c.text), h |-> 7,
                   yMin |-> 0, yMax |-> 7]
             ELSE getTextBounds(c.text, font)

\* C19: the current font is null until setFont is called, setFont(f) makes
\* it f, and no other method changes it; a text method called without a
\* font argument works with the current font, i.e. the font of the most
\* recent setFont call, and with the built-in font when that is null; a
\* font argument is the font of that call only and leaves the current
\* font as it was.
C19_TextOpsUseCurrentFont ==
  [][/\ call.op = "none" => currentFont = Null
     /\ call'.op = "setFont" => currentFont' = call'.font
     /\ call'.op \notin {"setFont", "none"} => currentFont' = currentFont
     /\ (call'.op \in SimTextOps /\ call'.font = Undefined) =>
          UsesFont(call', currentFont, textColor, dc,
                   dc', cursorX', ret', bounds')
     /\ (call'.op \in SimTextOps /\ call'.font \in SimFonts) =>
          UsesFont(call', call'.font, textColor, dc,
                   dc', cursorX', ret', bounds')
    ]_vars

\* drawText without a font argument after setFont(customFont): the custom
\* font's glyphs are on the canvas.
C19_Witness ==
  /\ call.op = "EinkSimulator.drawText"
  /\ call.font = Undefined
  /\ currentFont \in SimFonts
  /\ call.text = <<65, 66>>
  /\ dc # <<>>
  /\ dc = FontRendering(currentFont).dc
  /\ dc # BuiltinRendering.dc

----------------------------------------------------------------------------
\* Bit k of the byte at index i of an array, an index past the end of the
\* array holding no byte and so no set bit.
StoredBit(arr, i, k) == i < Len(arr) /\ Bit(arr[i + 1], k) = 1

\* The pixels of a glyph and of a packed image whose bits are stored in the
\* array and set.
StoredGlyphPixels(x, y, glyph, font) ==
  { <<x + glyph.xOffset + q[2], y + glyph.yOffset + q[1]>> :
      q \in { rc \in (0 .. glyph.height - 1) \X (0 .. glyph.width - 1) :
                LET i == rc[1] * glyph.width + rc[2]
                IN  StoredBit(font.bitmap, glyph.offset + (i \div 8),
                              7 - (i % 8)) } }
StoredImagePixels(x, y, bitmap, w, h) ==
  { <<x + q[2], y + q[1]>> :
      q \in { rc \in (0 .. h - 1) \X (0 .. w - 1) :
                StoredBit(bitmap, rc[1] * ((w + 7) \div 8) + (rc[2] \div 8),
                          rc[2] % 8) } }

\* The glyph, or the image, addresses bytes past the end of its array.
GlyphPastEnd(glyph, font) ==
  /\ glyph.width * glyph.height > 0
  /\ glyph.offset + ((glyph.width * glyph.height - 1) \div 8)
       >= Len(font.bitmap)
ImagePastEnd(bitmap, w, h) ==
  (h - 1) * ((w + 7) \div 8) + ((w - 1) \div 8) >= Len(bitmap)

\* C20: a malformed font or image does not stop the decoders.  When a
\* glyph's bits, or a packed image's, lie past the end of the byte array,
\* drawGlyph and drawXBitmap complete, write exactly the pixels whose bit
\* is stored in the array and set (none for a missing byte), and drawGlyph
\* still returns the glyph's xAdvance.
C20_MissingBytesReadAsZero ==
  /\ (/\ call.op = "drawGlyph"
      /\ HasGlyph(call.font, call.charCode)
      /\ GlyphPastEnd(call.font.glyphs[call.charCode], call.font)) =>
       /\ ret = call.font.glyphs[call.charCode].xAdvance
       /\ Pixels(dc) = StoredGlyphPixels(call.x, call.y,
                         call.font.glyphs[call.charCode], call.font)
  /\ (/\ call.op = "drawXBitmap"
      /\ ImagePastEnd(call.bitmap, call.w, call.h)) =>
       Pixels(dc) = StoredImagePixels(call.x, call.y, call.bitmap,
                                      call.w, call.h)

\* A glyph stored wholly past the end of the font's bitmap has been drawn:
\* nothing written, its advance returned.
C20_Witness ==
  /\ call.op = "drawGlyph"
  /\ HasGlyph(call.font, call.charCode)
  /\ call.font.glyphs[call.charCode] = Glyph(2, 2, 2, 3, 0, -2)
  /\ call.font.bitmap = <<128, 165>>
  /\ dc = <<>>
  /\ ret = 3

\* A 9 x 2 image with a single byte: the stored bit is drawn, the bits of
\* the three missing bytes are not.
C20_WitnessImage ==
  /\ call.op = "drawXBitmap"
  /\ call.bitmap = <<1>>
  /\ call.w = 9 /\ call.h = 2
  /\ Pixels(dc) = {<<call.x, call.y>>}

----------------------------------------------------------------------------
(* C21: the vertical bounds cover the ink.                                 *)

\* Every glyph of the font has a height of 0 or more.
HeightsNonNegative(font) ==
  \A c \in DOMAIN font.glyphs : font.glyphs[c].height >= 0

\* C21: for every string, font whose glyph heights are all >= 0 and baseline
\* y, every pixel drawText writes has its row r in
\* y + b.yMin <= r <= y + b.yMax - 1, where b is getTextBounds of the same
\* string and font.
C21_VerticalBoundsCoverInk ==
  (call.op = "drawText" /\ HeightsNonNegative(call.font)) =>
    LET b == getTextBounds(call.text, call.font)
    IN  \A i \in 1..Len(dc) :
          /\ call.y + b.yMin <= dc[i].y
          /\ dc[i].y <= call.y + b.yMax - 1

\* Two glyphs of different extents are drawn, the second one reaching both
\* above and below the first, and ink lands on the top and the bottom row
\* of the bounds.
C21_Witness ==
  /\ call.op = "drawText"
  /\ call.text = <<66, 65>>
  /\ 65 \in DOMAIN call.font.glyphs /\ 66 \in DOMAIN call.font.glyphs
  /\ call.font.glyphs[66] = Glyph(1, 2, 1, 2, 0, -4)
  /\ call.font.glyphs[65] = Glyph(1, 3, 2, 0, -1, 1)
  /\ LET b == getTextBounds(call.text, call.font)
     IN  /\ b.yMin = -4 /\ b.yMax = 3
         /\ \E i \in 1..Len(dc) : dc[i].y = call.y + b.yMin
         /\ \E i \in 1..Len(dc) : dc[i].y = call.y + b.yMax - 1

----------------------------------------------------------------------------
(* C22: the bounds of text measured with the built-in font.                *)

\* C22: with no font in effect (no font argument, currentFont null),
\* EinkSimulator.getTextBounds returns {w: 6 * text.length, h: 7, yMin: 0,
\* yMax: 7} for every text, the empty string included, whereas with an
\* external font in effect the empty string has h = 0.
C22_BuiltinBoundsFixedMetrics ==
  call.op = "EinkSimulator.getTextBounds" =>
    /\ (Nullish(call.font) /\ currentFont = Null) =>
         bounds = [w |-> 6 * Utf16Length(call.text), h |-> 7, yMin |-> 0,
                   yMax |-> 7]
    /\ (~Nullish(EffectiveFont) /\ call.text = <<>>) => bounds.h = 0

\* The empty string is measured with no font in effect and has a height of
\* 7.
C22_Witness ==
  /\ call.op = "EinkSimulator.getTextBounds"
  /\ Nullish(call.font) /\ currentFont = Null
  /\ call.text = <<>>
  /\ bounds = [w |-> 0, h |-> 7, yMin |-> 0, yMax |-> 7]

\* The empty string is measured with a font set by setFont and has no
\* height.
C22_WitnessExternalFont ==
  /\ call.op = "EinkSimulator.getTextBounds"
  /\ call.font = Undefined /\ currentFont \in SimFonts
  /\ call.text = <<>>
  /\ bounds.h = 0

----------------------------------------------------------------------------
(* C23: the glyph keys of an extracted font.                               *)

\* extractFont returned a font object.
ReturnedFont == call.op = "extractFont" /\ result # Null /\ result # TypeError

\* C23: every font returned by extractFont has its glyph keys in
\* [first, last]: first <= k <= last for every key k of the glyphs map,
\* for any parsed first and last and any number of glyph entries.
C23_ExtractedKeysInRange ==
  ReturnedFont =>
    \A k \in DOMAIN result.glyphs : result.first <= k /\ k <= result.last

\* A header whose GFXfont initialiser gives first = 0x21 and last = 0x22
\* and whose Glyphs initialiser has two entries yields glyphs keyed 0x20 and
\* 0x21: the key 0x20 is below first.
C23_Witness ==
  /\ ReturnedFont
  /\ result.first = 33 /\ result.last = 34
  /\ DOMAIN result.glyphs = {32, 33}
  /\ result.glyphs[32] = Glyph(0, 5, 3, 4, 0, -3)

----------------------------------------------------------------------------
(* C24: a scaled draw to a destination of no width or no height.           *)

ScaledDrawOps == {"EinkSimulator.drawXBitmapScaled", "drawXBitmapScaled"}

\* C24: EinkSimulator.drawXBitmapScaled, and the drawXBitmapScaled decoder
\* it forwards to, called with destW = 0 or destH = 0 writes no pixel and
\* raises no error (the call completes, on a canvas left as it was), for
\* any source bitmap and source dimensions.
C24_DegenerateScaleNoOp ==
  (call.op \in ScaledDrawOps /\ (call.destW = 0 \/ call.destH = 0)) =>
    dc = <<>>

\* The simulator is asked to scale a 8 x 1 source whose first bit is set to
\* a destination of width 0 and height 2, and nothing is written.
C24_Witness ==
  /\ call.op = "EinkSimulator.drawXBitmapScaled"
  /\ call.bitmap = <<165, 1, 90, 3>>
  /\ call.srcW = 8 /\ call.destW = 0
  /\ call.srcH = 1 /\ call.destH = 2
  /\ dc = <<>>

\* The decoder is asked to scale to a destination of height 0.
C24_WitnessDecoder ==
  /\ call.op = "drawXBitmapScaled"
  /\ call.destW = 3 /\ call.destH = 0
  /\ dc = <<>>

----------------------------------------------------------------------------
(* C25: the text colour and the foreground colour.                         *)

SimTextDrawOps ==
  {"EinkSimulator.drawText", "EinkSimulator.drawTextCentered",
   "EinkSimulator.drawTextRightAligned"}

\* The pixel and shape methods, each issuing one drawing call, and the
\* bitmap methods, which write one pixel per set bit.
SimShapeOps ==
  {"EinkSimulator.drawPixel", "EinkSimulator.drawLine",
   "EinkSimulator.drawHLine", "EinkSimulator.drawVLine",
   "EinkSimulator.drawRect", "EinkSimulator.fillRect",
   "EinkSimulator.drawRoundRect", "EinkSimulator.fillRoundRect",
   "EinkSimulator.drawCircle", "EinkSimulator.fillCircle",
   "EinkSimulator.drawTriangle", "EinkSimulator.fillTriangle"}
SimBitmapOps ==
  {"EinkSimulator.drawXBitmap", "EinkSimulator.drawXBitmapScaled"}

\* C25: the text colour is state of its own.  It is initialised to the
\* configured foreground; setTextColor changes it and nothing else, so that
\* only text methods called without a colour argument draw differently;
\* after any setTextColor calls the pixel, shape and bitmap methods called
\* without a colour argument draw with config.foreground and clear() fills
\* with config.background; a colour argument is the colour of that call
\* only and leaves the text colour and the configuration as they were.
C25_TextColorSeparateFromForeground ==
  [][/\ call.op = "none" => textColor = config.foreground
     /\ call'.op = "new EinkSimulator" => textColor' = config'.foreground
     /\ call'.op = "setTextColor" =>
          /\ textColor' = call'.color
          /\ config' = config /\ currentFont' = currentFont /\ dc' = dc
     /\ call'.op \notin {"setTextColor", "new EinkSimulator", "none"} =>
          textColor' = textColor /\ config' = config
     /\ call'.op \in SimTextDrawOps =>
          /\ UsesFont(call', Coalesce(call'.font, currentFont), textColor,
                      dc, dc', cursorX', ret', bounds')
          /\ WriteColors(dc') \subseteq
               {IF call'.color = UndefinedColor THEN textColor
                ELSE call'.color}
     /\ call'.op \in SimShapeOps =>
          /\ Len(dc') = Len(dc) + 1
          /\ dc'[Len(dc')].color =
               (IF call'.color = UndefinedColor THEN config.foreground
                ELSE call'.color)
     /\ call'.op \in SimBitmapOps =>
          WriteColors(dc') \subseteq
            {IF call'.color = UndefinedColor THEN config.foreground
             ELSE call'.color}
     /\ call'.op = "EinkSimulator.clear" =>
          dc' = Append(dc, CanvasCall("fillRect",
                                      <<0, 0, config.width, config.height>>,
                                      config.background))
    ]_vars

\* After setTextColor made the text colour differ from the foreground, a
\* bitmap drawn without a colour argument has its pixels in the foreground
\* colour.
C25_Witness ==
  /\ call.op = "EinkSimulator.drawXBitmap"
  /\ call.color = UndefinedColor
  /\ textColor # config.foreground
  /\ dc # <<>>
  /\ WriteColors(dc) = {config.foreground}

\* On a simulator configured with a blue foreground, text drawn without a
\* colour argument after setTextColor('#FF0000') is red.
C25_WitnessText ==
  /\ call.op = "EinkSimulator.drawText"
  /\ call.color = UndefinedColor
  /\ config.foreground = "#0000FF"
  /\ textColor = "#FF0000"
  /\ WriteColors(dc) = {"#FF0000"}

----------------------------------------------------------------------------
(* C26: the bytes drawGlyph reads and the box it writes in.                *)

\* The indices offset .. offset + ceil(width * height / 8) - 1.
GlyphByteRange(glyph) ==
  glyph.offset ..
    (glyph.offset + CeilDiv(glyph.width * glyph.height, 8) - 1)

\* The font with every bitmap byte outside the glyph's range, and one byte
\* past the end of both, replaced by fillByte; a byte of the range that the
\* bitmap lacks reads as 0 either way.
MaskedOutside(font, glyph, fillByte) ==
  LET range == GlyphByteRange(glyph)
      n == (IF range = {} THEN Len(font.bitmap)
            ELSE SetMax({Len(font.bitmap)} \cup {i + 1 : i \in range})) + 1
  IN  [font EXCEPT !.bitmap =
         [i \in 1..n |-> IF (i - 1) \in range THEN ByteAt(font.bitmap, i - 1)
                         ELSE fillByte]]

\* The font with a bitmap of set bits only, as long as the glyph's range
\* asks for.
AllBitsSet(font, glyph) ==
  [font EXCEPT !.bitmap =
     [i \in 1..(glyph.offset + CeilDiv(glyph.width * glyph.height, 8)) |->
        255]]

\* offset + ceil(width * height / 8) stays within the bitmap.
GlyphWithinBitmap(font, glyph) ==
  glyph.offset + CeilDiv(glyph.width * glyph.height, 8) <= Len(font.bitmap)

\* C26: drawGlyph consumes exactly width * height bits (on a bitmap of set
\* bits it writes that many pixels) and reads only the bytes with index in
\* [offset, offset + ceil(width * height / 8) - 1] (what it writes does not
\* depend on any other byte, present or not); hence for a glyph whose range
\* stays within the bitmap no byte past the end is read, and every pixel
\* written lies in [x + xOffset, x + xOffset + width - 1] by
\* [y + yOffset, y + yOffset + height - 1].
C26_GlyphReadsItsBytesOnly ==
  (call.op = "drawGlyph" /\ HasGlyph(call.font, call.charCode)) =>
    LET glyph == call.font.glyphs[call.charCode]
        Drawn(font) ==
          drawGlyph(<<>>, call.x, call.y, call.charCode, font, call.color).dc
    IN  /\ Len(Drawn(AllBitsSet(call.font, glyph))) =
             glyph.width * glyph.height
        /\ Drawn(MaskedOutside(call.font, glyph, 255)) = dc
        /\ Drawn(MaskedOutside(call.font, glyph, 0)) = dc
        /\ GlyphWithinBitmap(call.font, glyph) =>
             Drawn([call.font EXCEPT !.bitmap = @ \o <<255, 255>>]) = dc
        /\ \A i \in DOMAIN dc :
             /\ dc[i].x - (call.x + glyph.xOffset) \in 0 .. glyph.width - 1
             /\ dc[i].y - (call.y + glyph.yOffset) \in 0 .. glyph.height - 1

\* A glyph of 15 bits in two bytes is drawn from a bitmap whose third byte
\* has every bit set: the third byte is outside the glyph's range.
C26_Witness ==
  /\ call.op = "drawGlyph"
  /\ HasGlyph(call.font, call.charCode)
  /\ call.font.glyphs[call.charCode] = Glyph(0, 5, 3, 4, 0, -3)
  /\ call.font.bitmap = <<91, 60, 255>>
  /\ GlyphWithinBitmap(call.font, call.font.glyphs[call.charCode])
  /\ Len(dc) = 9

----------------------------------------------------------------------------
(* C27: the source coordinates drawXBitmapScaled samples.                  *)

\* C27: in drawXBitmapScaled with srcW, srcH, destW and destH all positive,
\* every sampled source coordinate is inside the source image,
\* 0 <= srcCol <= srcW - 1 and 0 <= srcRow <= srcH - 1 for every
\* destination pixel, so the byte index never exceeds
\* srcH * ceil(srcW / 8) - 1 and the padding bits of a row (columns >=
\* srcW) are never sampled: every pixel written stands for a set bit of
\* the image proper.  Up-scaling and down-scaling alike.
C27_SampledCoordinatesInsideSource ==
  (/\ call.op = "drawXBitmapScaled"
   /\ call.srcW > 0 /\ call.srcH > 0 /\ call.destW > 0 /\ call.destH > 0) =>
    LET bytesPerRow == CeilDiv(call.srcW, 8)
        srcCol(destCol) ==
          MathFloorTimes(destCol, DoubleDivide(call.srcW, call.destW))
        srcRow(destRow) ==
          MathFloorTimes(destRow, DoubleDivide(call.srcH, call.destH))
    IN  /\ \A destCol \in 0 .. call.destW - 1 :
             0 <= srcCol(destCol) /\ srcCol(destCol) <= call.srcW - 1
        /\ \A destRow \in 0 .. call.destH - 1 :
             0 <= srcRow(destRow) /\ srcRow(destRow) <= call.srcH - 1
        /\ \A destCol \in 0 .. call.destW - 1, destRow \in 0 .. call.destH - 1 :
             srcRow(destRow) * bytesPerRow + FloorDiv(srcCol(destCol), 8)
               <= call.srcH * bytesPerRow - 1
        /\ \A i \in DOMAIN dc :
             <<srcCol(dc[i].x - call.x), srcRow(dc[i].y - call.y)>>
               \in AddressedSetBits(call.bitmap, call.srcW, call.srcH)

\* A row of 9 pixels, whose second byte has 7 padding bits, is scaled down
\* to 4 columns and up to 2 rows; 4 pixels are written.
C27_Witness ==
  /\ call.op = "drawXBitmapScaled"
  /\ call.bitmap = <<165, 1, 90, 3>>
  /\ call.srcW = 9 /\ call.destW = 4
  /\ call.srcH = 1 /\ call.destH = 2
  /\ Len(dc) = 4

----------------------------------------------------------------------------
(* C28: measuring and drawing a concatenation.                             *)

\* The ways of writing text as s + t: the string is cut between any two of
\* its UTF-16 code units, inside a surrogate pair too.
Splits(text) ==
  LET units == Utf16Units(text)
  IN  { [s |-> CodePoints(SubSeq(units, 1, k)),
         t |-> CodePoints(SubSeq(units, k + 1, Len(units)))] :
        k \in 0 .. Len(units) }

\* C28: for all strings s and t and every font f,
\* getTextWidth(s + t, f) = getTextWidth(s, f) + getTextWidth(t, f), and
\* drawText(s + t, x, y, f) writes the same pixels as drawText(s, x, y, f)
\* followed by drawText(t, x + getTextWidth(s, f), y, f).
C28_ConcatenationIsCompositional ==
  call.op = "drawText" =>
    \A p \in Splits(call.text) :
      LET ws == getTextWidth(p.s, call.font)
          first == drawText(<<>>, p.s, call.x, call.y, call.font, call.color)
          second == drawText(first.dc, p.t, call.x + ws, call.y, call.font,
                             call.color)
      IN  /\ getTextWidth(call.text, call.font)
               = ws + getTextWidth(p.t, call.font)
          /\ second = [dc |-> dc, cursorX |-> cursorX]

\* A string of two characters, the first with an advance and both with
\* ink, has been drawn: the ink of the second starts at x plus the width
\* of the first.
C28_Witness ==
  /\ call.op = "drawText"
  /\ call.text = <<65, 66>>
  /\ DOMAIN call.font.glyphs = {65, 66}
  /\ call.font.glyphs[65] = Glyph(0, 5, 3, 4, 0, -3)
  /\ call.font.glyphs[66] = Glyph(0, 8, 1, 9, 1, -1)
  /\ Len(drawText(<<>>, <<65>>, call.x, call.y, call.font, call.color).dc) > 0
  /\ Len(dc) > Len(drawText(<<>>, <<65>>, call.x, call.y, call.font,
                            call.color).dc)

\* A string ending in an astral character has been drawn: one of its
\* splits leaves the high surrogate at the end of s and the low surrogate
\* at the start of t.
C28_WitnessSurrogates ==
  /\ call.op = "drawText"
  /\ call.text = <<65, 128512>>
  /\ [s |-> <<65, 55357>>, t |-> <<56832>>] \in Splits(call.text)
  /\ Len(dc) > 0

----------------------------------------------------------------------------
(* C29: hasChar and the renderer.                                          *)

\* The renderer treats code c of the font as not renderable: getGlyph is
\* undefined, drawGlyph returns 0 and draws nothing, and c adds 0 to
\* getTextWidth.
NotRenderable(font, c) ==
  /\ getGlyph(font, c) = Undefined
  /\ \A x \in Xs, y \in Ys, color \in Colors :
       drawGlyph(<<>>, x, y, c, font, color) = [dc |-> <<>>, ret |-> 0]
  /\ getTextWidth(<<c>>, font) = 0

\* C29: hasChar(font, c) is true exactly when first <= c <= last and
\* font.glyphs has an entry for c, and for every font and every code c,
\* hasChar(font, c) = false implies that getGlyph(font, c) is undefined,
\* that drawGlyph returns 0 and draws nothing, and that c contributes 0 to
\* getTextWidth.
C29_HasCharAgreesWithRenderer ==
  /\ call.op = "hasChar" =>
       /\ result.value =
            (/\ call.font.first <= call.charCode
             /\ call.charCode <= call.font.last
             /\ call.charCode \in DOMAIN call.font.glyphs)
       /\ ~result.value => NotRenderable(call.font, call.charCode)
  /\ call.op = "getGlyph" =>
       (~hasChar(call.font, call.charCode) => result = Undefined)

\* hasChar is false for the code 0x20 of a font extractFont returned with
\* first = 0x21, and yet the font has a glyph at 0x20 which drawGlyph draws
\* and getTextWidth counts.
C29_Witness ==
  /\ call.op = "hasChar"
  /\ call.font \in ExtractedFonts
  /\ call.font.first = 33 /\ call.charCode = 32
  /\ result.value = FALSE
  /\ getGlyph(call.font, 32) = Glyph(0, 5, 3, 4, 0, -3)
  /\ drawGlyph(<<>>, 0, 0, 32, call.font, "#000000").ret = 4
  /\ Len(drawGlyph(<<>>, 0, 0, 32, call.font, "#000000").dc) > 0
  /\ getTextWidth(<<32>>, call.font) = 4

----------------------------------------------------------------------------
(* C30: the built-in table and the 5-by-7 character box.                   *)

\* The codes drawBuiltinChar accepts.
AcceptedCodes == 32 .. 127

\* Every pixel of the writes d lies in the box [x, x+4] by [y, y+6].
InCharacterBox(d, x, y) ==
  \A i \in DOMAIN d :
    /\ d[i].x >= x /\ d[i].x <= x + 4
    /\ d[i].y >= y /\ d[i].y <= y + 6

\* C30: the built-in table has 96 * 5 = 480 bytes; for every accepted code
\* c (0x20 <= c <= 0x7F) and every col in 0..4 the index (c - 0x20) * 5 +
\* col lies in 0..479, so no accepted code reads outside the table; every
\* pixel written lies in the box [x, x+4] by [y, y+6], which leaves column
\* x+5 blank.
C30_BuiltinTableCoversAcceptedCodes ==
  /\ Len(BUILTIN_5X7_FONT) = 96 * 5
  /\ call.op = "drawBuiltinChar" =>
       /\ InCharacterBox(dc, call.x, call.y)
       /\ \A c \in AcceptedCodes :
            /\ \A col \in 0 .. 4 :
                 /\ (c - 32) * 5 + col \in 0 .. 479
                 /\ (c - 32) * 5 + col + 1 \in DOMAIN BUILTIN_5X7_FONT
            /\ InCharacterBox(drawBuiltinChar(<<>>, call.x, call.y, c,
                                              call.color),
                              call.x, call.y)

\* drawBuiltinChar drew code 0x7F, the last entry of the table (bytes 475
\* to 479): its fifth column, byte 0x08 at index 479, gives the pixel
\* (x + 4, y + 3), on the right edge of the box.
C30_Witness ==
  /\ call.op = "drawBuiltinChar"
  /\ call.char = 127
  /\ BUILTIN_5X7_FONT[480] = 8
  /\ <<call.x + 4, call.y + 3>> \in Pixels(dc)
  /\ Len(dc) = 9

====
